---------------------------- MODULE Spec2Model ----------------------------
(***************************************************************************)
(* Connection-group discovery and verification pipeline of filmections.    *)
(*                                                                         *)
(* The call paths are modelled under specifications of their own:          *)
(*   SpecDedup  - GroupGenerator.deduplicateByFilms, one loop iteration    *)
(*                per step, over every bounded candidate list              *)
(*   SpecGG     - GroupGenerator.generateGroups (filter, analyzers under   *)
(*                Promise.all, recent-exclusion, dedup, cap)               *)
(*   SpecGGFair - SpecGG with the event loop's fairness                    *)
(*   SpecGen    - the three producers of playable groups:                  *)
(*                generateGroupsWithClaude (validateGroups, verifyAIGroups),*)
(*                AIGroupGenerator.processAIResponse, and                  *)
(*                HybridGroupGenerator.generate over the                   *)
(*                DeterministicDiscoverer, with VerificationEngine.verify  *)
(*   SpecFilter     - applyPoolFilters under every filter configuration    *)
(*   SpecRegistry   - generateGroups called twice while the analyzer       *)
(*                    registry is cleared and filled between the calls     *)
(*   SpecDifficulty - the difficulty label of the returned groups over     *)
(*                    scores around the band limits                        *)
(*   SpecSelect     - HybridGroupGenerator.selectBestGroups over lists of  *)
(*                    formatted groups in every order                      *)
(*   SpecVerify     - VerificationEngine.verify called directly, with     *)
(*                    usable and unusable descriptors                      *)
(*   SpecDiscover   - DeterministicDiscoverer.discoverAll under every cap  *)
(*   SpecProcess    - processAIResponse over suggestions that share films  *)
(*   SpecPuzzle     - puzzleGenerator.generatePuzzle, both versions, with  *)
(*                    its retry; SpecPuzzleFair adds the fairness          *)
(***************************************************************************)
EXTENDS Integers, Sequences, FiniteSets, TLC

VARIABLES
    op,                 \* which call is being executed
    pc,                 \* position inside that call
    \* ---- GroupGenerator.generateGroups ----
    moviePool,          \* argument: sequence of film ids
    poolFilters,        \* this.poolFilters
    maxGroupsPerBatch,  \* this.config.maxGroupsPerBatch
    registry,           \* analyzerRegistry: enabled analyzers, in order
    enabledAnalyzers,   \* this.enabledAnalyzers (config.enabledAnalyzers)
    earlier,            \* the outcome of the previous call of this generator
    completed,          \* which analyzer's promise settled, with what, in time order
    recentConnections,  \* argument: set of connection strings
    filteredPool,       \* local: applyPoolFilters(moviePool)
    invoked,            \* analyzers whose analyze() has been called
    allResults,         \* Promise.all slots, one per analyzer
    potentialGroups,    \* local
    totalFound,         \* local
    phases,             \* the positions the call has passed through, in order
    result,             \* the resolved value of the call
    error,              \* the message of the thrown Error, "" if none
    \* ---- deduplicateByFilms ----
    groups,             \* argument: candidate list
    idx,                \* number of candidates already processed
    accepted,           \* local: accepted groups, in order
    seenFilmSets,       \* local: fingerprints of the accepted groups
    verdict,            \* verdict[i]: whether candidate i was pushed to accepted
    \* ---- generateGroupsWithClaude, AIGroupGenerator.processAIResponse ----
    response,           \* what the fetch of the Claude API produced
    aiGroups,           \* the suggested groups (parsed.groups / aiGroups)
    movieDetails,       \* optional argument movieDetails / originalMovies
    hostBehindUTC,      \* whether the host's local time is behind UTC
    cursor,             \* number of groups the running loop has processed
    basicValid,         \* validateGroups: valid
    basicFiltered,      \* validateGroups: filteredCount
    verifiedGroups,     \* verifyAIGroups: verified
    verificationFiltered, \* verifyAIGroups: filteredCount
    usedFilmIds,        \* processAIResponse: usedFilmIds
    validGroups,        \* processAIResponse: validGroups
    verificationRejected, \* processAIResponse: verificationRejected
    verifyCalls,        \* every call of VerificationEngine.verify so far
    provenance,         \* provenance[k]: the suggestion validGroups[k] was made from
    \* ---- HybridGroupGenerator.generate ----
    films,              \* argument: the film pool
    targetGroupCount,   \* argument
    preferDiversity,    \* this.config.preferDiversity
    maxDeterministicGroups, \* this.config.maxDeterministicGroups
    discovered,         \* local: discoverAll(films)
    deterministicGroups, \* local: the formatted groups
    \* ---- both ----
    output,             \* the value the call returned
    thrown              \* the message of the Error the call threw, "" if none

ggVars == <<moviePool, poolFilters, maxGroupsPerBatch, registry, enabledAnalyzers, earlier, completed,
           recentConnections,
            filteredPool, invoked, allResults, potentialGroups, totalFound,
            phases, result, error>>
dedupVars == <<groups, idx, accepted, seenFilmSets, verdict>>
aiVars == <<response, aiGroups, movieDetails, hostBehindUTC, cursor, basicValid,
            basicFiltered, verifiedGroups, verificationFiltered, usedFilmIds,
            validGroups, verificationRejected, verifyCalls, provenance>>
hybridVars == <<films, targetGroupCount, preferDiversity, maxDeterministicGroups,
                discovered, deterministicGroups>>
genVars == <<aiVars, hybridVars, output, thrown>>
vars == <<op, pc, ggVars, dedupVars, genVars>>

-----------------------------------------------------------------------------
(* Bounds *)

\* longest candidate list given to deduplicateByFilms
MaxGroups == 3
\* longest list one analyzer returns
MaxPerAnalyzer == 2
\* largest movie pool
MaxPool == 21
\* largest explicitly configured maxGroupsPerBatch
MaxBatch == 2

\* film ids the candidate groups are built from
FilmIds == 1 .. 6

-----------------------------------------------------------------------------
(* Values *)

\* an optional value: <<>> when undefined, <<v>> when set
None == <<>>
Some(v) == <<v>>

\* a Promise.all slot
Pending == [settled |-> FALSE, value |-> <<>>]
Settled(v) == [settled |-> TRUE, value |-> v]

\* Sequences over S of length at most n
SeqsUpTo(S, n) == UNION {[1 .. k -> S] : k \in 0 .. n}

Range(s) == {s[i] : i \in 1 .. Len(s)}

RECURSIVE Flat(_)
\* Array.prototype.flat() on a list of lists
Flat(ls) == IF ls = <<>> THEN <<>> ELSE Head(ls) \o Flat(Tail(ls))

\* Array.prototype.slice(0, n)
Slice0(s, n) == SubSeq(s, 1, IF n < Len(s) THEN n ELSE Len(s))

-----------------------------------------------------------------------------
(* deduplicateByFilms *)

\* the place of s[i] in ascending order (equal elements keep their order)
Rank(s, i) ==
    Cardinality({j \in 1 .. Len(s) : s[j] < s[i] \/ (s[j] = s[i] /\ j < i)}) + 1

\* filmIds.sort((a, b) => a - b)
SortAsc(s) == [k \in 1 .. Len(s) |-> s[CHOOSE i \in 1 .. Len(s) : Rank(s, i) = k]]

\* filmIds.join(','): the ids separated by commas
Join(s) ==
    [k \in 1 .. (IF Len(s) = 0 THEN 0 ELSE 2 * Len(s) - 1) |->
        IF k % 2 = 1 THEN s[(k + 1) \div 2] ELSE ","]

\* group.films.map((f) => f.id): a film is represented by its id
FilmIdsOf(group) == group.films

\* the fingerprint of a group: its sorted film ids, joined
Fingerprint(group) == Join(SortAsc(FilmIdsOf(group)))

\* the inner loop: how many ids of the candidate's id set the accepted group has
SharedCount(filmIdSet, acceptedGroup) ==
    Cardinality({id \in filmIdSet : id \in Range(FilmIdsOf(acceptedGroup))})

\* "If 3 or more films overlap, consider it too similar"
OverlapLimit == 3

\* (mutant) the threshold off by one: only 4 shared films count as too similar
HasHighOverlapLoose(group, acc) ==
    \E k \in 1 .. Len(acc) :
        SharedCount(Range(SortAsc(FilmIdsOf(group))), acc[k]) >= OverlapLimit + 1

HasHighOverlap(group, acc) ==
    \E k \in 1 .. Len(acc) :
        SharedCount(Range(SortAsc(FilmIdsOf(group))), acc[k]) >= OverlapLimit

\* (mutant) only the exact-duplicate test: the overlap test is left out
DedupIterFingerprintOnly(st, group) ==
    IF Fingerprint(group) \in st.seen
    THEN [st EXCEPT !.verdict = Append(@, FALSE)]
    ELSE [accepted |-> Append(st.accepted, group),
          seen |-> st.seen \cup {Fingerprint(group)},
          verdict |-> Append(st.verdict, TRUE)]

\* one iteration of the for loop over groups; st = [accepted, seen, verdict]
DedupIter(st, group) ==
    IF Fingerprint(group) \in st.seen
    THEN [st EXCEPT !.verdict = Append(@, FALSE)]
    ELSE IF HasHighOverlap(group, st.accepted)
         THEN [st EXCEPT !.verdict = Append(@, FALSE)]
         ELSE [accepted |-> Append(st.accepted, group),
               seen |-> st.seen \cup {Fingerprint(group)},
               verdict |-> Append(st.verdict, TRUE)]

DedupStart == [accepted |-> <<>>, seen |-> {}, verdict |-> <<>>]

RECURSIVE DedupFold(_, _)
DedupFold(st, gs) ==
    IF gs = <<>> THEN st ELSE DedupFold(DedupIter(st, Head(gs)), Tail(gs))

\* the whole function: the accepted list
deduplicateByFilms(gs) == DedupFold(DedupStart, gs).accepted

-----------------------------------------------------------------------------
(* Candidate groups *)

\* the ids of S in ascending order
AscOf(S) == CHOOSE s \in [1 .. Cardinality(S) -> S] :
                \A i, j \in 1 .. Cardinality(S) : i < j => s[i] < s[j]

Reverse(s) == [i \in 1 .. Len(s) |-> s[Len(s) + 1 - i]]

\* a candidate group has exactly four distinct films (types/index.ts, data model)
GroupSize == 4

FourSubsets == {S \in SUBSET FilmIds : Cardinality(S) = GroupSize}

\* film lists of candidate groups: every four-film set in ascending order, and
\* the sets holding the three lowest ids in descending order too
FilmLists ==
    {AscOf(S) : S \in FourSubsets}
        \cup {Reverse(AscOf(S)) : S \in {T \in FourSubsets : {1, 2, 3} \subseteq T}}

\* AnalyzerResult, reduced to what the pipeline reads
Candidate(fl, conn, score) == [films |-> fl, connection |-> conn, difficultyScore |-> score]

DedupCandidates == {Candidate(fl, "c", 5000) : fl \in FilmLists}

-----------------------------------------------------------------------------
(* SpecDedup: deduplicateByFilms, one loop iteration per step *)

aiIdle ==
    /\ response = "" /\ aiGroups = <<>> /\ movieDetails = <<>>
    /\ hostBehindUTC = FALSE /\ cursor = 0 /\ basicValid = <<>>
    /\ basicFiltered = 0 /\ verifiedGroups = <<>> /\ verificationFiltered = 0
    /\ usedFilmIds = {} /\ validGroups = <<>> /\ verificationRejected = 0
    /\ verifyCalls = {} /\ provenance = <<>>

hybridIdle ==
    /\ films = <<>> /\ targetGroupCount = 0 /\ preferDiversity = TRUE
    /\ maxDeterministicGroups = 0
    /\ discovered = <<>> /\ deterministicGroups = <<>>

genIdle == aiIdle /\ hybridIdle /\ output = <<>> /\ thrown = ""

ggIdle ==
    /\ moviePool = <<>> /\ poolFilters = None /\ maxGroupsPerBatch = 0
    /\ registry = <<>> /\ recentConnections = {} /\ filteredPool = <<>>
    /\ invoked = {} /\ allResults = <<>> /\ potentialGroups = <<>>
    /\ totalFound = 0 /\ phases = <<>> /\ result = None /\ error = ""
    /\ enabledAnalyzers = None /\ earlier = None /\ completed = <<>>

InitDedup ==
    /\ op = "deduplicateByFilms"
    /\ pc = "deduping"
    /\ groups \in SeqsUpTo(DedupCandidates, MaxGroups)
    /\ idx = 0
    /\ accepted = <<>>
    /\ seenFilmSets = {}
    /\ verdict = <<>>
    /\ ggIdle
    /\ genIdle

\* the locals of deduplicateByFilms, as DedupIter reads them
DedupLocals == [accepted |-> accepted, seen |-> seenFilmSets, verdict |-> verdict]

\* (mutant) an accepted group is put in front of the accepted list
DedupStepNewestFirst ==
    /\ pc = "deduping" /\ idx < Len(groups)
    /\ \E st \in {DedupIter(DedupLocals, groups[idx + 1])} :
         /\ accepted' = IF st.verdict[idx + 1] THEN <<groups[idx + 1]>> \o accepted
                        ELSE accepted
         /\ seenFilmSets' = st.seen
         /\ verdict' = st.verdict
    /\ idx' = idx + 1
    /\ UNCHANGED <<genVars, op, pc, groups, ggVars>>

\* one iteration: for (const group of groups) { ... }
DedupStep ==
    /\ pc = "deduping" /\ idx < Len(groups)
    /\ \E st \in {DedupIter(DedupLocals, groups[idx + 1])} :
         /\ accepted' = st.accepted
         /\ seenFilmSets' = st.seen
         /\ verdict' = st.verdict
    /\ idx' = idx + 1
    /\ UNCHANGED <<genVars, op, pc, groups, ggVars>>

\* return accepted
DedupReturn ==
    /\ op = "deduplicateByFilms" /\ pc = "deduping" /\ idx = Len(groups)
    /\ pc' = "done"
    /\ UNCHANGED <<genVars, op, groups, idx, accepted, seenFilmSets, verdict, ggVars>>

NextDedup == DedupStep \/ DedupReturn

SpecDedup == InitDedup /\ [][NextDedup]_vars

-----------------------------------------------------------------------------
(* GroupGenerator: pool filters and difficulty *)

\* TMDBMovieDetails of the pool film with this id, reduced to what the filters read.
\* release_year is parseInt(release_date.substring(0, 4)), 0 for an empty date:
\* film 1 has no release date. Film 2 has no genres, film 21 a third genre.
Movie(id) ==
    [id |-> id,
     release_year |-> IF id = 1 THEN 0 ELSE 1999 + id,
     vote_count |-> 100 * id,
     popularity |-> id,
     genre_ids |-> IF id = 2 THEN <<>>
                   ELSE IF id = 21 THEN <<28, 12, 99>>
                   ELSE IF id % 2 = 1 THEN <<28, 12>> ELSE <<18>>]

\* MoviePoolFilter; an omitted number is 0 and an omitted list is <<>>, which the
\* code's truthiness tests treat alike
PF(minYear, maxYear, minVoteCount, maxVoteCount, minPopularity, allowed, excluded) ==
    [minYear |-> minYear, maxYear |-> maxYear, minVoteCount |-> minVoteCount,
     maxVoteCount |-> maxVoteCount, minPopularity |-> minPopularity,
     allowedGenres |-> allowed, excludedGenres |-> excluded]

\* JavaScript truthiness of a number
Truthy(n) == n # 0

\* the predicate of movies.filter(...) in applyPoolFilters
PassesPoolFilters(f, m) ==
    /\ (Truthy(f.minYear) \/ Truthy(f.maxYear)) =>
            /\ ~(Truthy(f.minYear) /\ m.release_year < f.minYear)
            /\ ~(Truthy(f.maxYear) /\ m.release_year > f.maxYear)
    /\ ~(Truthy(f.minVoteCount) /\ m.vote_count < f.minVoteCount)
    /\ ~(Truthy(f.maxVoteCount) /\ m.vote_count > f.maxVoteCount)
    /\ ~(Truthy(f.minPopularity) /\ m.popularity < f.minPopularity)
    /\ (Len(f.allowedGenres) > 0 =>
            \E g \in Range(m.genre_ids) : g \in Range(f.allowedGenres))
    /\ (Len(f.excludedGenres) > 0 =>
            ~ \E g \in Range(m.genre_ids) : g \in Range(f.excludedGenres))

\* (mutant) the upper bounds maxYear and maxVoteCount are not applied
applyPoolFiltersLowerBoundsOnly(f, movies) ==
    IF f = None THEN movies
    ELSE SelectSeq(movies, LAMBDA id :
            PassesPoolFilters([f[1] EXCEPT !.maxYear = 0, !.maxVoteCount = 0], Movie(id)))

applyPoolFilters(f, movies) ==
    IF f = None THEN movies
    ELSE SelectSeq(movies, LAMBDA id : PassesPoolFilters(f[1], Movie(id)))

\* (mutant) the band limits compared with < instead of <=
calculateDifficultyStrict(score) ==
    IF score < 3000 THEN [difficulty |-> "easy", color |-> "yellow"]
    ELSE IF score < 6000 THEN [difficulty |-> "medium", color |-> "green"]
    ELSE IF score < 8000 THEN [difficulty |-> "hard", color |-> "blue"]
    ELSE [difficulty |-> "hardest", color |-> "purple"]

calculateDifficulty(score) ==
    IF score <= 3000 THEN [difficulty |-> "easy", color |-> "yellow"]
    ELSE IF score <= 6000 THEN [difficulty |-> "medium", color |-> "green"]
    ELSE IF score <= 8000 THEN [difficulty |-> "hard", color |-> "blue"]
    ELSE [difficulty |-> "hardest", color |-> "purple"]

analyzerResultToGroup(r) ==
    [films |-> r.films,
     connection |-> r.connection,
     difficultyScore |-> r.difficultyScore,
     difficulty |-> calculateDifficulty(r.difficultyScore).difficulty,
     color |-> calculateDifficulty(r.difficultyScore).color]

\* (mutant) the cap is left out: every deduplicated group is converted
selectedGroupsUncapped(deduplicatedGroups, n) ==
    [i \in 1 .. Len(deduplicatedGroups) |-> analyzerResultToGroup(deduplicatedGroups[i])]

\* lines 146-148: slice(0, maxGroupsPerBatch).map(analyzerResultToGroup)
selectedGroups(deduplicatedGroups, n) ==
    [i \in 1 .. Len(Slice0(deduplicatedGroups, n)) |->
        analyzerResultToGroup(Slice0(deduplicatedGroups, n)[i])]

-----------------------------------------------------------------------------
(* SpecGG: GroupGenerator.generateGroups *)

\* "Filtered movie pool too small ... (minimum: 20)"
MinPoolSize == 20
\* DEFAULT_CONFIG.maxGroupsPerBatch
DefaultMaxGroupsPerBatch == 50

ErrPoolTooSmall == "Filtered movie pool too small"
ErrNoAnalyzers == "No analyzers are registered or enabled"

PoolSizes == {0} \cup (MinPoolSize - 1 .. MaxPool)

PoolFilterChoices ==
    {None,
     Some(PF(2001, 0, 0, 0, 0, <<>>, <<>>)),
     Some(PF(0, 0, 0, 0, 0, <<>>, <<18>>))}

\* analyzerRegistry.getEnabled(): the enabled analyzers, in registration order
RegistryChoices == {<<>>, <<"a1">>, <<"a1", "a2">>}

getEnabled == registry

\* what analyze(filteredPool) may resolve to
GGCandidates ==
    {Candidate(<<1, 2, 3, 4>>, "A", 2000),
     Candidate(<<4, 3, 2, 1>>, "B", 5000),
     Candidate(<<1, 2, 3, 5>>, "B", 7000),
     Candidate(<<1, 2, 5, 6>>, "C", 9000)}

AnalyzerOutputs == SeqsUpTo(GGCandidates, MaxPerAnalyzer)

dedupIdle ==
    /\ groups = <<>> /\ idx = 0 /\ accepted = <<>> /\ seenFilmSets = {}
    /\ verdict = <<>>

InitGG ==
    /\ op = "generateGroups"
    /\ pc = "filtering"
    /\ moviePool \in {[i \in 1 .. n |-> i] : n \in PoolSizes}
    /\ poolFilters \in PoolFilterChoices
    /\ maxGroupsPerBatch \in (1 .. MaxBatch) \cup {DefaultMaxGroupsPerBatch}
    /\ registry \in RegistryChoices
    /\ enabledAnalyzers = None
    /\ earlier = None
    /\ completed = <<>>
    /\ recentConnections \in {{}, {"A"}}
    /\ filteredPool = <<>>
    /\ invoked = {}
    /\ allResults = <<>>
    /\ potentialGroups = <<>>
    /\ totalFound = 0
    /\ phases = <<"filtering">>
    /\ result = None
    /\ error = ""
    /\ dedupIdle
    /\ genIdle

\* (mutant) the two checks in the other order
FatalErrorAnalyzersFirst(pool, analyzers) ==
    IF Len(analyzers) = 0 THEN ErrNoAnalyzers
    ELSE IF Len(pool) < MinPoolSize THEN ErrPoolTooSmall
    ELSE ""

\* lines 112-123: the message of the Error thrown for this filtered pool and
\* these enabled analyzers, "" when none is thrown
FatalError(pool, analyzers) ==
    IF Len(pool) < MinPoolSize THEN ErrPoolTooSmall
    ELSE IF Len(analyzers) = 0 THEN ErrNoAnalyzers
    ELSE ""

\* throw new Error(msg): the call ends, nothing is returned
Throw(msg) ==
    /\ pc' = "failed"
    /\ phases' = Append(phases, "failed")
    /\ error' = msg
    /\ UNCHANGED <<invoked, allResults, result>>

\* lines 110-128: filter the pool, the two checks, then start every analyzer
GGFilter ==
    /\ op = "generateGroups" /\ pc = "filtering"
    /\ filteredPool' = applyPoolFilters(poolFilters, moviePool)
    /\ IF FatalError(filteredPool', getEnabled) # ""
       THEN Throw(FatalError(filteredPool', getEnabled))
       ELSE /\ pc' = "discovering"
            /\ phases' = Append(phases, "discovering")
            /\ invoked' = Range(getEnabled)
            /\ allResults' = [i \in 1 .. Len(getEnabled) |-> Pending]
            /\ UNCHANGED <<result, error>>
    /\ UNCHANGED <<genVars, op, moviePool, poolFilters, maxGroupsPerBatch, registry, enabledAnalyzers, earlier, completed,
                   recentConnections, potentialGroups, totalFound, dedupVars>>

\* (mutant) the values are kept in the order in which the promises settle
GGAnalyzerResolveInArrivalOrder ==
    /\ op = "generateGroups" /\ pc = "discovering"
    /\ \E i \in 1 .. Len(allResults) :
         /\ \A k \in 1 .. Len(completed) : completed[k].analyzer # i
         /\ \E out \in AnalyzerOutputs :
              /\ allResults' = [allResults EXCEPT ![Len(completed) + 1] = Settled(out)]
              /\ completed' = Append(completed, [analyzer |-> i, value |-> out])
    /\ UNCHANGED <<genVars, op, pc, moviePool, poolFilters, maxGroupsPerBatch, registry, enabledAnalyzers, earlier,
                   recentConnections, filteredPool, invoked, potentialGroups,
                   totalFound, phases, result, error, dedupVars>>

\* the promise of analyzer i resolves, in any order, to some candidate list;
\* Promise.all keeps the value at the analyzer's place
GGAnalyzerResolve ==
    /\ op = "generateGroups" /\ pc = "discovering"
    /\ \E i \in 1 .. Len(allResults) :
         /\ ~allResults[i].settled
         /\ \E out \in AnalyzerOutputs :
              /\ allResults' = [allResults EXCEPT ![i] = Settled(out)]
              /\ completed' = Append(completed, [analyzer |-> i, value |-> out])
    /\ UNCHANGED <<genVars, op, pc, moviePool, poolFilters, maxGroupsPerBatch, registry, enabledAnalyzers, earlier,
                   recentConnections, filteredPool, invoked, potentialGroups,
                   totalFound, phases, result, error, dedupVars>>

\* (mutant) deduplicateByFilms is given the candidates before the recently used
\* connections are dropped
GGCollectDedupsUnfiltered ==
    /\ op = "generateGroups" /\ pc = "discovering"
    /\ \A i \in 1 .. Len(allResults) : allResults[i].settled
    /\ LET flat == Flat([i \in 1 .. Len(allResults) |-> allResults[i].value])
       IN /\ totalFound' = Len(flat)
          /\ potentialGroups' =
                IF Cardinality(recentConnections) > 0
                THEN SelectSeq(flat, LAMBDA g : g.connection \notin recentConnections)
                ELSE flat
          /\ groups' = flat
    /\ idx' = 0
    /\ accepted' = <<>>
    /\ seenFilmSets' = {}
    /\ verdict' = <<>>
    /\ pc' = "deduping"
    /\ phases' = Append(phases, "deduping")
    /\ UNCHANGED <<genVars, op, moviePool, poolFilters, maxGroupsPerBatch, registry, enabledAnalyzers, earlier, completed,
                   recentConnections, filteredPool, invoked, allResults, result,
                   error>>

\* lines 130-143: Promise.all resolved; flatten, count, drop recent connections,
\* and enter deduplicateByFilms(potentialGroups)
GGCollect ==
    /\ op = "generateGroups" /\ pc = "discovering"
    /\ \A i \in 1 .. Len(allResults) : allResults[i].settled
    /\ LET flat == Flat([i \in 1 .. Len(allResults) |-> allResults[i].value])
       IN /\ totalFound' = Len(flat)
          /\ potentialGroups' =
                IF Cardinality(recentConnections) > 0
                THEN SelectSeq(flat, LAMBDA g : g.connection \notin recentConnections)
                ELSE flat
    /\ groups' = potentialGroups'
    /\ idx' = 0
    /\ accepted' = <<>>
    /\ seenFilmSets' = {}
    /\ verdict' = <<>>
    /\ pc' = "deduping"
    /\ phases' = Append(phases, "deduping")
    /\ UNCHANGED <<genVars, op, moviePool, poolFilters, maxGroupsPerBatch, registry, enabledAnalyzers, earlier, completed,
                   recentConnections, filteredPool, invoked, allResults, result,
                   error>>

\* line 143: deduplicateByFilms returns; deduplicatedGroups = accepted
GGDedupReturn ==
    /\ op = "generateGroups" /\ pc = "deduping" /\ idx = Len(groups)
    /\ pc' = "selecting"
    /\ phases' = Append(phases, "selecting")
    /\ UNCHANGED <<genVars, op, moviePool, poolFilters, maxGroupsPerBatch, registry, enabledAnalyzers, earlier, completed,
                   recentConnections, filteredPool, invoked, allResults,
                   potentialGroups, totalFound, result, error, dedupVars>>

\* (mutant) an empty batch is reported as an error instead of being returned
GGSelectThrowsWhenEmpty ==
    /\ op = "generateGroups" /\ pc = "selecting"
    /\ IF accepted = <<>>
       THEN /\ pc' = "failed"
            /\ phases' = Append(phases, "failed")
            /\ error' = "No groups"
            /\ UNCHANGED result
       ELSE /\ result' = Some([groups |-> selectedGroups(accepted, maxGroupsPerBatch),
                               totalFound |-> totalFound,
                               filteredCount |-> totalFound - Len(accepted)])
            /\ pc' = "done"
            /\ phases' = Append(phases, "done")
            /\ UNCHANGED error
    /\ UNCHANGED <<genVars, op, moviePool, poolFilters, maxGroupsPerBatch, registry, enabledAnalyzers, earlier, completed,
                   recentConnections, filteredPool, invoked, allResults,
                   potentialGroups, totalFound, dedupVars>>

\* (mutant) filteredCount counts only what deduplicateByFilms removed
GGSelectCountsDedupOnly ==
    /\ op = "generateGroups" /\ pc = "selecting"
    /\ result' = Some([groups |-> selectedGroups(accepted, maxGroupsPerBatch),
                       totalFound |-> totalFound,
                       filteredCount |-> Len(potentialGroups) - Len(accepted)])
    /\ pc' = "done"
    /\ phases' = Append(phases, "done")
    /\ UNCHANGED <<genVars, op, moviePool, poolFilters, maxGroupsPerBatch, registry, enabledAnalyzers, earlier, completed,
                   recentConnections, filteredPool, invoked, allResults,
                   potentialGroups, totalFound, error, dedupVars>>

\* lines 146-154: cap, convert, return
GGSelect ==
    /\ op = "generateGroups" /\ pc = "selecting"
    /\ result' = Some([groups |-> selectedGroups(accepted, maxGroupsPerBatch),
                       totalFound |-> totalFound,
                       filteredCount |-> totalFound - Len(accepted)])
    /\ pc' = "done"
    /\ phases' = Append(phases, "done")
    /\ UNCHANGED <<genVars, op, moviePool, poolFilters, maxGroupsPerBatch, registry, enabledAnalyzers, earlier, completed,
                   recentConnections, filteredPool, invoked, allResults,
                   potentialGroups, totalFound, error, dedupVars>>

\* SpecFilter: the first step of generateGroups, over a wider choice of pool
\* filters
FilterChoices ==
    {None,
     Some(PF(0, 0, 0, 0, 0, <<>>, <<>>)),
     Some(PF(2001, 0, 0, 0, 0, <<>>, <<>>)),
     Some(PF(0, 2019, 0, 0, 0, <<>>, <<>>)),
     Some(PF(2001, 2019, 0, 0, 0, <<>>, <<>>)),
     Some(PF(0, 0, 200, 0, 0, <<>>, <<>>)),
     Some(PF(0, 0, 0, 2000, 0, <<>>, <<>>)),
     Some(PF(0, 0, 200, 2000, 0, <<>>, <<>>)),
     Some(PF(0, 0, 0, 0, 2, <<>>, <<>>)),
     Some(PF(0, 0, 0, 0, 0, <<28, 18>>, <<>>)),
     Some(PF(0, 0, 0, 0, 0, <<28>>, <<>>)),
     Some(PF(0, 0, 0, 0, 0, <<>>, <<99>>)),
     Some(PF(0, 0, 0, 0, 0, <<>>, <<18>>)),
     Some(PF(0, 0, 0, 0, 0, <<18, 12>>, <<99>>)),
     Some(PF(0, 2019, 0, 0, 2, <<>>, <<>>))}

InitFilter ==
    /\ op = "generateGroups"
    /\ pc = "filtering"
    /\ moviePool \in {[i \in 1 .. n |-> i] : n \in PoolSizes}
                    \cup {[i \in 1 .. n |-> n + 1 - i] : n \in PoolSizes}
    /\ poolFilters \in FilterChoices
    /\ maxGroupsPerBatch = DefaultMaxGroupsPerBatch
    /\ registry \in RegistryChoices
    /\ enabledAnalyzers = None
    /\ earlier = None
    /\ completed = <<>>
    /\ recentConnections = {}
    /\ filteredPool = <<>>
    /\ invoked = {}
    /\ allResults = <<>>
    /\ potentialGroups = <<>>
    /\ totalFound = 0
    /\ phases = <<"filtering">>
    /\ result = None
    /\ error = ""
    /\ dedupIdle
    /\ genIdle

NextFilter == GGFilter

SpecFilter == InitFilter /\ [][NextFilter]_vars

\* SpecRegistry: one generator called twice with the same arguments, the global
\* analyzer registry being changed by other code in between

AnalyzerNames == {"a1", "a2"}

InitRegistry ==
    /\ op = "generateGroups"
    /\ pc = "filtering"
    /\ moviePool \in {[i \in 1 .. n |-> i] : n \in {MinPoolSize - 1, MinPoolSize}}
    /\ poolFilters = None
    /\ maxGroupsPerBatch = DefaultMaxGroupsPerBatch
    /\ registry \in RegistryChoices
    /\ enabledAnalyzers \in {None, Some(<<"a1">>), Some(<<"a1", "a2">>)}
    /\ earlier = None
    /\ completed = <<>>
    /\ recentConnections = {}
    /\ filteredPool = <<>>
    /\ invoked = {}
    /\ allResults = <<>>
    /\ potentialGroups = <<>>
    /\ totalFound = 0
    /\ phases = <<"filtering">>
    /\ result = None
    /\ error = ""
    /\ dedupIdle
    /\ genIdle

\* analyzerRegistry.clear(), called by other code between two calls
RegistryClear ==
    /\ op = "generateGroups" /\ pc \in {"done", "failed"}
    /\ registry # <<>>
    /\ registry' = <<>>
    /\ UNCHANGED <<genVars, dedupVars, op, pc, moviePool, poolFilters,
                   maxGroupsPerBatch, enabledAnalyzers, earlier, completed,
                   recentConnections,
                   filteredPool, invoked, allResults, potentialGroups, totalFound,
                   phases, result, error>>

\* analyzerRegistry.register(analyzer), called by other code between two calls
RegistryRegister ==
    /\ op = "generateGroups" /\ pc \in {"done", "failed"}
    /\ \E name \in AnalyzerNames \ Range(registry) :
          registry' = Append(registry, name)
    /\ UNCHANGED <<genVars, dedupVars, op, pc, moviePool, poolFilters,
                   maxGroupsPerBatch, enabledAnalyzers, earlier, completed,
                   recentConnections,
                   filteredPool, invoked, allResults, potentialGroups, totalFound,
                   phases, result, error>>

\* the same generator is called again with the same pool and recentConnections
CallAgain ==
    /\ op = "generateGroups" /\ pc \in {"done", "failed"}
    /\ earlier = None
    /\ earlier' = Some([invoked |-> invoked, error |-> error])
    /\ pc' = "filtering"
    /\ filteredPool' = <<>>
    /\ invoked' = {}
    /\ allResults' = <<>>
    /\ potentialGroups' = <<>>
    /\ totalFound' = 0
    /\ phases' = <<"filtering">>
    /\ result' = None
    /\ error' = ""
    /\ groups' = <<>> /\ idx' = 0 /\ accepted' = <<>> /\ seenFilmSets' = {}
    /\ verdict' = <<>>
    /\ completed' = <<>>
    /\ UNCHANGED <<genVars, op, moviePool, poolFilters, maxGroupsPerBatch, registry,
                   enabledAnalyzers, recentConnections>>

NextRegistry ==
    \/ GGFilter \/ GGAnalyzerResolve \/ GGCollect \/ DedupStep \/ GGDedupReturn
    \/ GGSelect \/ RegistryClear \/ RegistryRegister \/ CallAgain

SpecRegistry == InitRegistry /\ [][NextRegistry]_vars

\* SpecDifficulty: the last step of generateGroups on a call whose one analyzer
\* resolved to two candidates with no common film, for every pair of scores

\* how far around each band limit the scores are taken
Near == 6

\* the nominal score range is 0 .. 10000
Scores ==
    UNION {b - Near .. b + Near : b \in {0, 3000, 6000, 8000, 10000}}
        \cup {-1000000, 1000000}

InitDifficulty ==
    /\ op = "generateGroups"
    /\ pc = "selecting"
    /\ moviePool = [i \in 1 .. MinPoolSize |-> i]
    /\ poolFilters = None
    /\ maxGroupsPerBatch = DefaultMaxGroupsPerBatch
    /\ registry = <<"a1">>
    /\ enabledAnalyzers = None
    /\ earlier = None
    /\ recentConnections = {}
    /\ filteredPool = moviePool
    /\ invoked = {"a1"}
    /\ \E s1 \in Scores : \E s2 \in Scores :
          accepted = <<Candidate(<<1, 2, 3, 4>>, "A", s1),
                       Candidate(<<5, 6, 7, 8>>, "B", s2)>>
    /\ allResults = <<Settled(accepted)>>
    /\ completed = <<[analyzer |-> 1, value |-> accepted]>>
    /\ potentialGroups = accepted
    /\ totalFound = Len(accepted)
    /\ groups = accepted
    /\ idx = Len(accepted)
    /\ seenFilmSets = {Fingerprint(accepted[1]), Fingerprint(accepted[2])}
    /\ verdict = <<TRUE, TRUE>>
    /\ phases = <<"filtering", "discovering", "deduping", "selecting">>
    /\ result = None
    /\ error = ""
    /\ genIdle

NextDifficulty == GGSelect

SpecDifficulty == InitDifficulty /\ [][NextDifficulty]_vars

NextGG ==
    GGFilter \/ GGAnalyzerResolve \/ GGCollect \/ DedupStep \/ GGDedupReturn \/ GGSelect

SpecGG == InitGG /\ [][NextGG]_vars

\* the event loop runs every continuation that is ready, and every analyzer's
\* promise settles
SpecGGFair == SpecGG /\ WF_vars(NextGG)

-----------------------------------------------------------------------------
(* Strings: JavaScript's String methods and the regular expressions used *)

CharAt(s, i) == SubSeq(s, i, i)

UpperCaseLetters == "ABCDEFGHIJKLMNOPQRSTUVWXYZ"
LowerCaseLetters == "abcdefghijklmnopqrstuvwxyz"
Digits == "0123456789"

IsOneOf(c, alphabet) == \E k \in 1 .. Len(alphabet) : CharAt(alphabet, k) = c

\* the lower-case letter of every upper-case letter
LowerOf ==
    [c \in {CharAt(UpperCaseLetters, k) : k \in 1 .. Len(UpperCaseLetters)} |->
        CharAt(LowerCaseLetters,
               CHOOSE k \in 1 .. Len(UpperCaseLetters) : CharAt(UpperCaseLetters, k) = c)]

LowerChar(c) == IF c \in DOMAIN LowerOf THEN LowerOf[c] ELSE c

\* String.prototype.toLowerCase
RECURSIVE toLowerCase(_)
toLowerCase(s) ==
    IF Len(s) = 0 THEN ""
    ELSE LowerChar(CharAt(s, 1)) \o toLowerCase(SubSeq(s, 2, Len(s)))

\* sub occurs in s at position i (1-based)
OccursAt(s, sub, i) ==
    /\ i >= 1 /\ i + Len(sub) - 1 <= Len(s)
    /\ SubSeq(s, i, i + Len(sub) - 1) = sub

\* String.prototype.includes
includes(s, sub) ==
    \E i \in 1 .. Len(s) - Len(sub) + 1 : SubSeq(s, i, i + Len(sub) - 1) = sub

\* String.prototype.endsWith
endsWith(s, suffix) == OccursAt(s, suffix, Len(s) - Len(suffix) + 1)

\* String.prototype.trim, for the blank character
RECURSIVE trim(_)
trim(s) ==
    IF Len(s) > 0 /\ CharAt(s, 1) = " " THEN trim(SubSeq(s, 2, Len(s)))
    ELSE IF Len(s) > 0 /\ CharAt(s, Len(s)) = " " THEN trim(SubSeq(s, 1, Len(s) - 1))
    ELSE s

\* \w of a regular expression
IsWordChar(c) ==
    IsOneOf(c, UpperCaseLetters) \/ IsOneOf(c, LowerCaseLetters)
        \/ IsOneOf(c, Digits) \/ c = "_"

\* \b of a regular expression, between positions i - 1 and i of s
WordBoundary(s, i) ==
    LET before == i > 1 /\ i - 1 <= Len(s) /\ IsWordChar(CharAt(s, i - 1))
        after == i >= 1 /\ i <= Len(s) /\ IsWordChar(CharAt(s, i))
    IN before # after

\* /\bword\b/ matches s at position i
WordAt(s, word, i) ==
    OccursAt(s, word, i) /\ WordBoundary(s, i) /\ WordBoundary(s, i + Len(word))

\* The regular expressions tested below carry the i flag and are made of
\* lower-case literals: such a pattern matches a text exactly when it matches
\* the text in lower case, and the operators take the text t in lower case.

\* /l1|l2|.../i, an alternation of literals
TestAny(t, literals) == \E l \in literals : includes(t, l)

\* /\b(l1|l2|...)\b/i
TestAnyWord(t, literals) ==
    \E l \in literals : \E i \in 1 .. Len(t) : WordAt(t, l, i)

-----------------------------------------------------------------------------
(* Films (TMDBMovieDetails) *)

Person(id, name) == [id |-> id, name |-> name]
Crew(person, job) == [id |-> person.id, name |-> person.name, job |-> job]
Cast(person, order) == [id |-> person.id, name |-> person.name, order |-> order]
Genre(id, name) == [id |-> id, name |-> name]
Date(y, m, d) == [year |-> y, month |-> m, day |-> d]

DePalma == Person(1, "Brian De Palma")
Stallone == Person(2, "Sylvester Stallone")
Coogler == Person(3, "Ryan Coogler")
Cage == Person(7, "Nicolas Cage")
Sinise == Person(8, "Gary Sinise")
Jordan == Person(9, "Michael B. Jordan")

Crime == Genre(80, "Crime")
Thriller == Genre(53, "Thriller")
Drama == Genre(18, "Drama")

\* the films the pools and the suggestions are made of; index 0 is the first.
\* Films 101, 102 and 103 are co-directed: their crew lists two directors.
Catalogue ==
    << [id |-> 101, title |-> "Snake Eyes", release_date |-> Date(1998, 8, 7),
        overview |-> "A detective investigates a MURDER at a boxing match.",
        genres |-> <<Crime, Thriller>>,
        crew |-> <<Crew(Sinise, "Producer"), Crew(DePalma, "Director"),
                   Crew(Coogler, "Director")>>,
        cast |-> <<Cast(Cage, 0), Cast(Sinise, 1)>>],
       [id |-> 102, title |-> "Red Eyes", release_date |-> Date(1990, 1, 1),
        overview |-> "A murder in the night.",
        genres |-> <<Crime>>,
        crew |-> <<Crew(DePalma, "Director"), Crew(Coogler, "Director")>>,
        cast |-> <<Cast(Cage, 0)>>],
       [id |-> 103, title |-> "Dead Eyes", release_date |-> Date(1995, 3, 2),
        overview |-> "Nobody saw the murder.",
        genres |-> <<Crime, Drama>>,
        crew |-> <<Crew(DePalma, "Director"), Crew(Coogler, "Director")>>,
        cast |-> <<Cast(Cage, 1), Cast(Cage, 3)>>],
       [id |-> 104, title |-> "EYES OF GOLD", release_date |-> Date(1999, 12, 31),
        overview |-> "A heist.",
        genres |-> <<Crime>>,
        crew |-> <<Crew(DePalma, "Director")>>,
        cast |-> <<Cast(Sinise, 0), Cast(Cage, 4)>>],
       [id |-> 105, title |-> "Rocky", release_date |-> Date(1976, 11, 21),
        overview |-> "A boxer gets a shot at the title.",
        genres |-> <<Drama>>,
        crew |-> <<Crew(Stallone, "Writer")>>,
        cast |-> <<Cast(Stallone, 0)>>],
       [id |-> 106, title |-> "Rocky II", release_date |-> Date(1979, 6, 15),
        overview |-> "",
        genres |-> <<>>,
        crew |-> <<Crew(Stallone, "Director")>>,
        cast |-> <<Cast(Stallone, 0), Cast(Cage, 5)>>],
       [id |-> 107, title |-> "Creed", release_date |-> Date(2015, 11, 25),
        overview |-> "The son of a boxer trains for a fight.",
        genres |-> <<Drama>>,
        crew |-> <<Crew(Coogler, "Director")>>,
        cast |-> <<Cast(Jordan, 0), Cast(Stallone, 1)>>] >>

\* array[i] of JavaScript, i counted from 0: undefined outside the array
At(array, i) == IF i >= 0 /\ i < Len(array) THEN Some(array[i + 1]) ELSE None

\* new Date('YYYY-MM-DD').getFullYear(): the date is read as midnight UTC and the
\* year is taken in the host's local time
getFullYear(release_date) ==
    IF hostBehindUTC /\ release_date.month = 1 /\ release_date.day = 1
    THEN release_date.year - 1
    ELSE release_date.year

-----------------------------------------------------------------------------
(* VerificationEngine *)

\* VerificationParams: every field optional
NoParams ==
    [keywords |-> None, requireAll |-> None, substring |-> None, pattern |-> None,
     genreId |-> None, personId |-> None, decade |-> None, minYear |-> None,
     maxYear |-> None]

\* x ?? d
OrElse(x, d) == IF x = None THEN d ELSE x[1]

\* (mutant) the length of the keyword list is not looked at
verifyOverviewKeywordsAnyLength(film, params) ==
    LET keywords == OrElse(params.keywords, <<>>)
        requireAll == OrElse(params.requireAll, FALSE)
        overview == toLowerCase(film.overview)
        matches(kw) == includes(overview, toLowerCase(kw))
    IN IF requireAll
       THEN \A k \in 1 .. Len(keywords) : matches(keywords[k])
       ELSE \E k \in 1 .. Len(keywords) :
               /\ matches(keywords[k])
               /\ \A j \in 1 .. k - 1 : ~matches(keywords[j])
               /\ keywords[k] # ""

verifyOverviewKeywords(film, params) ==
    LET keywords == OrElse(params.keywords, <<>>)
        requireAll == OrElse(params.requireAll, FALSE)
        overview == toLowerCase(film.overview)
        matches(kw) == includes(overview, toLowerCase(kw))
    IN IF Len(keywords) = 0 THEN FALSE
       ELSE IF requireAll
            THEN \A k \in 1 .. Len(keywords) : matches(keywords[k])
            \* find() returns the keyword itself, and '' is falsy
            ELSE \E k \in 1 .. Len(keywords) :
                    /\ matches(keywords[k])
                    /\ \A j \in 1 .. k - 1 : ~matches(keywords[j])
                    /\ keywords[k] # ""

\* (mutant) the title is compared as written, not in lower case
verifyTitleContainsAsWritten(film, params) ==
    LET substring == OrElse(params.substring, "")
    IN IF substring = "" THEN FALSE
       ELSE includes(film.title, toLowerCase(substring))

verifyTitleContains(film, params) ==
    LET substring == OrElse(params.substring, "")
    IN IF substring = "" THEN FALSE
       ELSE includes(toLowerCase(film.title), toLowerCase(substring))

Count(s, c) == Cardinality({i \in 1 .. Len(s) : CharAt(s, i) = c})

\* new RegExp(pattern, 'i') throws: patterns with an unbalanced parenthesis
InvalidRegExp(pattern) == Count(pattern, "(") # Count(pattern, ")")

\* new RegExp(pattern, 'i').test(title), for patterns made of a literal with an
\* optional ^ in front and an optional $ behind
RegExpTest(pattern, title) ==
    LET atStart == Len(pattern) > 0 /\ CharAt(pattern, 1) = "^"
        p1 == IF atStart THEN SubSeq(pattern, 2, Len(pattern)) ELSE pattern
        atEnd == Len(p1) > 0 /\ CharAt(p1, Len(p1)) = "$"
        body == toLowerCase(IF atEnd THEN SubSeq(p1, 1, Len(p1) - 1) ELSE p1)
        t == toLowerCase(title)
    IN \E i \in 1 .. Len(t) + 1 :
           /\ OccursAt(t, body, i)
           /\ atStart => i = 1
           /\ atEnd => i + Len(body) - 1 = Len(t)

verifyTitlePattern(film, params) ==
    LET pattern == OrElse(params.pattern, "")
    IN IF pattern = "" THEN FALSE
       ELSE IF InvalidRegExp(pattern) THEN FALSE
       ELSE RegExpTest(pattern, film.title)

verifyGenre(film, params) ==
    IF params.genreId = None THEN FALSE
    ELSE \E k \in 1 .. Len(film.genres) : film.genres[k].id = params.genreId[1]

verifyDirector(film, params) ==
    IF params.personId = None THEN FALSE
    ELSE \E k \in 1 .. Len(film.crew) :
            film.crew[k].job = "Director" /\ film.crew[k].id = params.personId[1]

verifyActor(film, params) ==
    IF params.personId = None THEN FALSE
    ELSE \E k \in 1 .. Len(film.cast) : film.cast[k].id = params.personId[1]

verifyDecade(film, params) ==
    IF params.decade = None THEN FALSE
    ELSE (getFullYear(film.release_date) \div 10) * 10 = params.decade[1]

verifyYearRange(film, params) ==
    IF params.minYear = None /\ params.maxYear = None THEN FALSE
    ELSE LET filmYear == getFullYear(film.release_date)
             passesMin == params.minYear = None \/ filmYear >= params.minYear[1]
             passesMax == params.maxYear = None \/ filmYear <= params.maxYear[1]
         IN passesMin /\ passesMax

\* verifyFilm: result.passed
verifyFilm(film, type, params) ==
    CASE type = "overview-keywords" -> verifyOverviewKeywords(film, params)
      [] type = "title-contains" -> verifyTitleContains(film, params)
      [] type = "title-pattern" -> verifyTitlePattern(film, params)
      [] type = "genre-includes" -> verifyGenre(film, params)
      [] type = "director" -> verifyDirector(film, params)
      [] type = "actor" -> verifyActor(film, params)
      [] type = "decade" -> verifyDecade(film, params)
      [] type = "year-range" -> verifyYearRange(film, params)
      [] OTHER -> FALSE

\* issues.push(`"${film.title}" does not match: ${result.reason || connection}`),
\* up to the colon: the reason behind it is not modelled
IssueOf(filmTitle) == "\"" \o filmTitle \o "\" does not match"

\* (mutant) valid as soon as one film passes
verifyAnyFilm(connection, verificationType, params, fs) ==
    LET filmResults ==
            [k \in 1 .. Len(fs) |->
                [filmId |-> fs[k].id, filmTitle |-> fs[k].title,
                 passed |-> verifyFilm(fs[k], verificationType, params)]]
        failed == SelectSeq(filmResults, LAMBDA r : ~r.passed)
    IN [valid |-> Len(failed) < Len(fs) \/ Len(fs) = 0, filmResults |-> filmResults,
        issues |-> [k \in 1 .. Len(failed) |-> IssueOf(failed[k].filmTitle)]]

\* verify: one result per film, one issue per film that did not pass
verify(connection, verificationType, params, fs) ==
    LET filmResults ==
            [k \in 1 .. Len(fs) |->
                [filmId |-> fs[k].id, filmTitle |-> fs[k].title,
                 passed |-> verifyFilm(fs[k], verificationType, params)]]
        failed == SelectSeq(filmResults, LAMBDA r : ~r.passed)
        issues == [k \in 1 .. Len(failed) |-> IssueOf(failed[k].filmTitle)]
    IN [valid |-> Len(issues) = 0, filmResults |-> filmResults, issues |-> issues]

\* the record of one call of verify: its arguments and what it returned
VerifyCall(connection, verificationType, params, fs) ==
    [connection |-> connection, verificationType |-> verificationType,
     params |-> params, films |-> [k \in 1 .. Len(fs) |-> fs[k].id],
     valid |-> verify(connection, verificationType, params, fs).valid,
     filmResults |-> verify(connection, verificationType, params, fs).filmResults,
     issues |-> verify(connection, verificationType, params, fs).issues]

-----------------------------------------------------------------------------
(* Suggestion validation: validateGroups and what it calls *)

\* one regular expression of FRANCHISE_PATTERNS: the literals it matches anywhere
\* and the literals it matches only at the end of the text (alien(?:s)?$)
Anywhere(literals) == [anywhere |-> literals, atEnd |-> {}]
AtEnd(literals) == [anywhere |-> {}, atEnd |-> literals]

FRANCHISE_PATTERNS ==
    << Anywhere({"harry potter"}),
       Anywhere({"pirates of the caribbean"}),
       Anywhere({"star wars"}),
       Anywhere({"lord of the rings"}),
       Anywhere({"fast furious", "fast and furious", "fast & furious"}),
       Anywhere({"marvel"}),
       Anywhere({"avengers"}),
       Anywhere({"spiderman", "spider-man"}),
       Anywhere({"batman"}),
       Anywhere({"transformers"}),
       Anywhere({"mission impossible"}),
       Anywhere({"jurassic park", "jurassic world"}),
       Anywhere({"toy story"}),
       Anywhere({"shrek"}),
       Anywhere({"predator"}),
       AtEnd({"alien", "aliens"}),
       Anywhere({"terminator"}),
       Anywhere({"indiana jones"}),
       Anywhere({"now you see me"}),
       Anywhere({"john wick"}),
       Anywhere({"matrix"}),
       Anywhere({"hunger games"}),
       Anywhere({"twilight"}),
       Anywhere({"divergent"}),
       Anywhere({"maze runner"}),
       Anywhere({"xmen", "x-men"}),
       Anywhere({"james bond", "007"}),
       Anywhere({"bourne"}),
       Anywhere({"rocky", "creed"}),
       Anywhere({"oceans", "ocean's"}) >>

\* pattern.test(text) for a pattern of FRANCHISE_PATTERNS and a text in lower
\* case, as both callers pass it
TestPattern(pattern, text) ==
    \/ \E l \in pattern.anywhere : includes(text, l)
    \/ \E l \in pattern.atEnd : endsWith(text, l)

FranchiseWords ==
    {"franchise", "series", "saga", "trilogy", "quadrilogy", "cinematic universe"}

\* movies[i]?.title, '' when there is no such movie
TitleAt(movies, i) == IF At(movies, i) = None THEN "" ELSE At(movies, i)[1].title

isFranchiseGroup(connection, movies, filmIndices) ==
    LET connLower == toLowerCase(connection)
        selectedTitles ==
            [k \in 1 .. Len(filmIndices) |-> toLowerCase(TitleAt(movies, filmIndices[k]))]
        matchCount(pattern) ==
            Cardinality({k \in 1 .. Len(selectedTitles) :
                            TestPattern(pattern, selectedTitles[k])})
    IN \/ \E p \in 1 .. Len(FRANCHISE_PATTERNS) :
              TestPattern(FRANCHISE_PATTERNS[p], connLower)
       \/ TestAnyWord(connLower, FranchiseWords)
       \/ \E p \in 1 .. Len(FRANCHISE_PATTERNS) :
              matchCount(FRANCHISE_PATTERNS[p]) >= 3

\* ['"]?
OptQuote == {"", "'", "\""}
\* /films?REST/i where REST is one of a set of literals: wherever "film" occurs,
\* an optional s and then one of the literals
TestFilms(t, rest) ==
    \E i \in 1 .. Len(t) :
        /\ OccursAt(t, "film", i)
        /\ \E s \in {"", "s"} : \E l \in rest : OccursAt(t, s \o l, i + 4)

\* TRIVIAL_PATTERNS[0], after films?
TrivialTheInTitle ==
    {" " \o v \o " " \o q1 \o "the" \o q2 \o " " \o e :
        v \in {"with", "that have", "starting with", "beginning with"},
        q1 \in OptQuote, q2 \in OptQuote, e \in {"in", "as"}}

\* TRIVIAL_PATTERNS[1], after films?
TrivialAFirst ==
    {" " \o v \o " " \o q1 \o "a" \o q2 \o " as the first" :
        v \in {"with", "that have"}, q1 \in OptQuote, q2 \in OptQuote}

\* TRIVIAL_PATTERNS[2], after films?; the optional final s matches in either case
TrivialOneWord == {" with one" \o sep \o "word title" : sep \in {"-", " "}}

\* \d{4}s at position d of t
FourDigitsS(t, d) ==
    /\ d >= 1 /\ d + 4 <= Len(t)
    /\ \A k \in d .. d + 3 : IsOneOf(CharAt(t, k), Digits)
    /\ CharAt(t, d + 4) = "s"

\* TRIVIAL_PATTERNS[3]: films? from the \d{4}s
TestTrivialDecade(t) ==
    LET lead == " from the "
    IN \E i \in 1 .. Len(t) :
          /\ OccursAt(t, "film", i)
          /\ \E s \in {"", "s"} :
                /\ OccursAt(t, s \o lead, i + 4)
                /\ FourDigitsS(t, i + 4 + Len(s) + Len(lead))

\* TRIVIAL_PATTERNS[5]: \bsequel(?:s)?\b.*\bsame franchise\b
TestTrivialSequel(t) ==
    \E w \in {"sequel", "sequels"} : \E i \in 1 .. Len(t) : \E j \in 1 .. Len(t) :
        /\ WordAt(t, w, i)
        /\ i + Len(w) <= j
        /\ WordAt(t, "same franchise", j)

isTrivialConnection(connection) ==
    LET t == toLowerCase(connection)
    IN \/ TestFilms(t, TrivialTheInTitle)
       \/ TestFilms(t, TrivialAFirst)
       \/ TestFilms(t, TrivialOneWord)
       \/ TestTrivialDecade(t)
       \/ TestAnyWord(t, {"franchise film", "franchise films"})
       \/ TestTrivialSequel(t)

\* TITLE_CLAIM_PATTERNS[0].pattern
TitleClaimQuestion ==
    {"title" \o s \o " " \o that \o v \o " question" :
        s \in {"", "s"}, that \in {"", "that "},
        v \in {"are", "sound like", "phrased as"}}

\* every path of the function but the first returns false
isQuestionTitle(title) == endsWith(trim(title), "?")

\* validateTitleClaim(...).valid
validateTitleClaim(connection, movies, filmIndices) ==
    IF TestAny(toLowerCase(connection), TitleClaimQuestion)
    THEN \A k \in 1 .. Len(filmIndices) :
            isQuestionTitle(TitleAt(movies, filmIndices[k]))
    ELSE TRUE

\* the body of validateGroups' loop: whether the group is pushed to valid
PassesValidation(group, movies) ==
    /\ ~isFranchiseGroup(group.connection, movies, group.filmIndices)
    /\ ~isTrivialConnection(group.connection)
    /\ validateTitleClaim(group.connection, movies, group.filmIndices)
    /\ Len(group.filmIndices) = GroupSize
    /\ ~\E k \in 1 .. Len(group.filmIndices) :
           group.filmIndices[k] < 0 \/ group.filmIndices[k] >= Len(movies)

-----------------------------------------------------------------------------
(* Suggested groups (AIGroupResponse) and the inputs of the AI paths *)

\* longest list of suggestions in one response
MaxSuggestions == 2

Suggestion(connection, filmIndices, difficulty, verificationType, verificationParams) ==
    [connection |-> connection, filmIndices |-> filmIndices,
     difficulty |-> difficulty, verificationType |-> verificationType,
     verificationParams |-> verificationParams]

ByDePalma == Some([NoParams EXCEPT !.personId = Some(DePalma.id)])
WithCage == Some([NoParams EXCEPT !.personId = Some(Cage.id)])

Suggestions ==
    { Suggestion("Directed by Brian De Palma", <<0, 1, 2, 3>>, "easy",
                 Some("director"), ByDePalma),
      Suggestion("Directed by Brian De Palma", <<0, 0, 1, 2>>, "easy",
                 Some("director"), ByDePalma),
      Suggestion("Directed by Brian De Palma", <<0, 1, 2, 3, 9>>, "easy",
                 Some("director"), ByDePalma),
      Suggestion("Directed by Brian De Palma", <<0, 1, 2>>, "easy",
                 Some("director"), ByDePalma),
      Suggestion("Directed by Brian De Palma", <<0, 1, 2, 4>>, "easy",
                 Some("director"), ByDePalma),
      Suggestion("Starring Nicolas Cage", <<-1, 0, 1, 2>>, "medium",
                 Some("actor"), WithCage),
      Suggestion("Somebody gets hurt", <<0, 1, 2, 3>>, "hardest", None, None),
      Suggestion("Boxing dramas", <<4, 5, 6, 0>>, "medium",
                 Some("genre-includes"),
                 Some([NoParams EXCEPT !.genreId = Some(Drama.id)])),
      Suggestion("Films from the 1990s", <<0, 1, 2, 3>>, "easy",
                 Some("decade"), Some([NoParams EXCEPT !.decade = Some(1990)])),
      Suggestion("Titles that are questions", <<0, 1, 2, 3>>, "hard",
                 Some("title-pattern"),
                 Some([NoParams EXCEPT !.pattern = Some("eyes$")])) }

\* what the fetch and the parse of the reply can come to
Responses == {"ok", "http-error", "no-content", "no-json", "bad-json"}

\* AIGroupGenerator.prepareMoviesForAI
prepareMoviesForAI(movies) ==
    [k \in 1 .. Len(movies) |->
        LET directors == SelectSeq(movies[k].crew, LAMBDA c : c.job = "Director")
        IN [id |-> movies[k].id, title |-> movies[k].title,
            year |-> getFullYear(movies[k].release_date),
            overview |-> movies[k].overview,
            director |-> IF directors = <<>> THEN None ELSE Some(directors[1].name),
            cast |-> [j \in 1 .. Len(Slice0(movies[k].cast, 5)) |->
                         movies[k].cast[j].name]]]

\* the argument movies / moviesForAI
moviesForAI == prepareMoviesForAI(Catalogue)

\* the optional argument movieDetails of generateGroupsWithClaude
MovieDetailsChoices == {None, Some(<<>>), Some(Catalogue), Some(Slice0(Catalogue, 3))}

InitClaude ==
    /\ op = "generateGroupsWithClaude"
    /\ pc = "fetching"
    /\ response \in Responses
    /\ aiGroups \in IF response = "ok" THEN SeqsUpTo(Suggestions, MaxSuggestions)
                    ELSE {<<>>}
    /\ movieDetails \in MovieDetailsChoices
    /\ hostBehindUTC \in BOOLEAN
    /\ cursor = 0 /\ basicValid = <<>> /\ basicFiltered = 0
    /\ verifiedGroups = <<>> /\ verificationFiltered = 0
    /\ usedFilmIds = {} /\ validGroups = <<>> /\ verificationRejected = 0
    /\ verifyCalls = {} /\ provenance = <<>>
    /\ output = None /\ thrown = ""
    /\ hybridIdle /\ ggIdle /\ dedupIdle

InitProcess ==
    /\ op = "processAIResponse"
    /\ pc = "processing"
    /\ response = "ok"
    /\ aiGroups \in SeqsUpTo(Suggestions, MaxSuggestions)
    /\ movieDetails = Some(Catalogue)
    /\ hostBehindUTC \in BOOLEAN
    /\ cursor = 0 /\ basicValid = <<>> /\ basicFiltered = 0
    /\ verifiedGroups = <<>> /\ verificationFiltered = 0
    /\ usedFilmIds = {} /\ validGroups = <<>> /\ verificationRejected = 0
    /\ verifyCalls = {} /\ provenance = <<>>
    /\ output = None /\ thrown = ""
    /\ hybridIdle /\ ggIdle /\ dedupIdle

-----------------------------------------------------------------------------
(* generateGroupsWithClaude: fetch, validateGroups, verifyAIGroups *)

ErrClaudeAPI == "Claude API error"
ErrNoContent == "No content in Claude response"
ErrNoJSON == "No valid JSON found in AI response"
ErrInvalidJSON == "Invalid JSON in AI response"

\* lines 611-664: the reply is fetched and parsed, or the call throws
ClaudeParse ==
    /\ op = "generateGroupsWithClaude" /\ pc = "fetching"
    /\ IF response = "ok"
       THEN pc' = "validating" /\ UNCHANGED thrown
       ELSE /\ pc' = "failed"
            /\ thrown' = CASE response = "http-error" -> ErrClaudeAPI
                           [] response = "no-content" -> ErrNoContent
                           [] response = "no-json" -> ErrNoJSON
                           [] OTHER -> ErrInvalidJSON
    /\ UNCHANGED <<op, ggVars, dedupVars, aiVars, hybridVars, output>>

\* validateGroups, one iteration of its loop
ValidateStep ==
    /\ op = "generateGroupsWithClaude" /\ pc = "validating"
    /\ cursor < Len(aiGroups)
    /\ \E movies \in {moviesForAI} :
          LET group == aiGroups[cursor + 1]
          IN IF PassesValidation(group, movies)
             THEN basicValid' = Append(basicValid, group) /\ UNCHANGED basicFiltered
             ELSE basicFiltered' = basicFiltered + 1 /\ UNCHANGED basicValid
    /\ cursor' = cursor + 1
    /\ UNCHANGED <<op, pc, ggVars, dedupVars, hybridVars, output, thrown, response,
                   aiGroups, movieDetails, hostBehindUTC, verifiedGroups,
                   verificationFiltered, usedFilmIds, validGroups,
                   verificationRejected, verifyCalls, provenance>>

\* { ...g, verified: v }
WithVerified(g, v) ==
    [connection |-> g.connection, filmIndices |-> g.filmIndices,
     difficulty |-> g.difficulty, verificationType |-> g.verificationType,
     verificationParams |-> g.verificationParams, verified |-> v]

\* lines 667-696 when verifyAIGroups is not called: validateGroups has returned,
\* no movieDetails (or an empty list) were given, the groups are returned as
\* they are
ClaudeReturnUnverified ==
    /\ op = "generateGroupsWithClaude" /\ pc = "validating"
    /\ cursor = Len(aiGroups)
    /\ ~(movieDetails # None /\ Len(movieDetails[1]) > 0)
    /\ verifiedGroups' = [k \in 1 .. Len(basicValid) |-> WithVerified(basicValid[k], None)]
    /\ output' = Some([groups |-> verifiedGroups',
                       filteredCount |-> basicFiltered + verificationFiltered])
    /\ pc' = "done"
    /\ UNCHANGED <<op, ggVars, dedupVars, hybridVars, thrown, response, aiGroups,
                   movieDetails, hostBehindUTC, cursor, basicValid, basicFiltered,
                   verificationFiltered, usedFilmIds, validGroups,
                   verificationRejected, verifyCalls, provenance>>

\* lines 673-674: validateGroups has returned and verifyAIGroups is entered
ClaudeStartVerify ==
    /\ op = "generateGroupsWithClaude" /\ pc = "validating"
    /\ cursor = Len(aiGroups)
    /\ movieDetails # None /\ Len(movieDetails[1]) > 0
    /\ pc' = "verifying"
    /\ cursor' = 0
    /\ UNCHANGED <<op, ggVars, dedupVars, hybridVars, output, thrown, response,
                   aiGroups, movieDetails, hostBehindUTC, basicValid, basicFiltered,
                   verifiedGroups, verificationFiltered, usedFilmIds, validGroups,
                   verificationRejected, verifyCalls, provenance>>

\* filmIndices.map(i => movieDetails[i]).filter(f => f !== undefined)
FilmsOf(filmIndices, details) ==
    LET found == SelectSeq(filmIndices, LAMBDA i : At(details, i) # None)
    IN [k \in 1 .. Len(found) |-> At(details, found[k])[1]]

\* !group.verificationType: undefined or the empty string
Missing(verificationType) == verificationType = None \/ verificationType = Some("")

\* verifyAIGroups, one iteration of its loop
VerifyAIStep ==
    /\ op = "generateGroupsWithClaude" /\ pc = "verifying"
    /\ cursor < Len(basicValid)
    /\ LET group == basicValid[cursor + 1]
           fs == FilmsOf(group.filmIndices, movieDetails[1])
       IN IF Len(fs) # GroupSize
          THEN /\ verificationFiltered' = verificationFiltered + 1
               /\ UNCHANGED <<verifiedGroups, verifyCalls>>
          ELSE IF Missing(group.verificationType) \/ group.verificationParams = None
          THEN /\ verifiedGroups' = Append(verifiedGroups, WithVerified(group, Some(FALSE)))
               /\ UNCHANGED <<verificationFiltered, verifyCalls>>
          ELSE \E call \in {VerifyCall(group.connection, group.verificationType[1],
                                       group.verificationParams[1], fs)} :
                 /\ verifyCalls' = verifyCalls \cup {call}
                 /\ IF call.valid
                    THEN /\ verifiedGroups' =
                              Append(verifiedGroups, WithVerified(group, Some(TRUE)))
                         /\ UNCHANGED verificationFiltered
                    ELSE /\ verificationFiltered' = verificationFiltered + 1
                         /\ UNCHANGED verifiedGroups
    /\ cursor' = cursor + 1
    /\ UNCHANGED <<op, pc, ggVars, dedupVars, hybridVars, output, thrown, response,
                   aiGroups, movieDetails, hostBehindUTC, basicValid, basicFiltered,
                   usedFilmIds, validGroups, verificationRejected, provenance>>

\* lines 675-696: verifyAIGroups has returned
ClaudeReturn ==
    /\ op = "generateGroupsWithClaude" /\ pc = "verifying"
    /\ cursor = Len(basicValid)
    /\ output' = Some([groups |-> verifiedGroups,
                       filteredCount |-> basicFiltered + verificationFiltered])
    /\ pc' = "done"
    /\ UNCHANGED <<op, ggVars, dedupVars, hybridVars, thrown, aiVars>>

-----------------------------------------------------------------------------
(* AIGroupGenerator.processAIResponse *)

DIFFICULTY_TO_COLOR ==
    [easy |-> "yellow", medium |-> "green", hard |-> "blue", hardest |-> "purple"]

DIFFICULTY_TO_SCORE ==
    [easy |-> 2000, medium |-> 5000, hard |-> 7000, hardest |-> 9000]

\* /\d{4}s/.test(connection)
TestFourDigitsS(text) == \E d \in 1 .. Len(text) : FourDigitsS(text, d)

inferConnectionType(connection) ==
    LET lower == toLowerCase(connection)
    IN IF includes(lower, "directed by") \/ includes(lower, "director")
       THEN "director"
       ELSE IF includes(lower, "starring") \/ includes(lower, "featuring")
                \/ includes(lower, "actor")
       THEN "actor"
       ELSE IF includes(lower, "decade") \/ includes(lower, "'s")
                \/ TestFourDigitsS(connection)
       THEN "decade"
       ELSE IF includes(lower, "genre") \/ includes(lower, "horror")
                \/ includes(lower, "comedy")
       THEN "genre"
       ELSE "thematic"

\* the Film made from a movie
ToFilm(movie) ==
    [id |-> movie.id, title |-> movie.title, year |-> getFullYear(movie.release_date)]

\* (mutant) the filter does not look at the films accepted groups have taken
ValidIndicesInRangeOnly(filmIndices, movies, used) ==
    SelectSeq(filmIndices, LAMBDA i : i >= 0 /\ i < Len(movies))

\* aiGroup.filmIndices.filter(...): in range and not used by an accepted group
ValidIndices(filmIndices, movies, used) ==
    SelectSeq(filmIndices,
              LAMBDA i : /\ i >= 0 /\ i < Len(movies)
                         /\ movies[i + 1].id \notin used)

\* one iteration of the loop of processAIResponse
ProcessStep ==
    /\ op = "processAIResponse" /\ pc = "processing"
    /\ cursor < Len(aiGroups)
    /\ \E movies \in {prepareMoviesForAI(movieDetails[1])} :
       LET aiGroup == aiGroups[cursor + 1]
           originalMovies == movieDetails[1]
           validIndices == ValidIndices(aiGroup.filmIndices, movies, usedFilmIds)
           movieDetailsForGroup ==
               [k \in 1 .. Len(validIndices) |-> originalMovies[validIndices[k] + 1]]
       IN IF Len(validIndices) # GroupSize
          THEN UNCHANGED <<usedFilmIds, validGroups, verificationRejected,
                           verifyCalls, provenance>>
          ELSE IF Missing(aiGroup.verificationType) \/ aiGroup.verificationParams = None
          THEN /\ verificationRejected' = verificationRejected + 1
               /\ UNCHANGED <<usedFilmIds, validGroups, verifyCalls, provenance>>
          ELSE \E call \in {VerifyCall(aiGroup.connection, aiGroup.verificationType[1],
                                       aiGroup.verificationParams[1],
                                       movieDetailsForGroup)} :
                 /\ verifyCalls' = verifyCalls \cup {call}
                 /\ IF ~call.valid
                    THEN /\ verificationRejected' = verificationRejected + 1
                         /\ UNCHANGED <<usedFilmIds, validGroups, provenance>>
                    ELSE /\ usedFilmIds' = usedFilmIds \cup
                                {movieDetailsForGroup[k].id :
                                    k \in 1 .. Len(movieDetailsForGroup)}
                         /\ validGroups' = Append(validGroups,
                                [films |-> [k \in 1 .. Len(movieDetailsForGroup) |->
                                               ToFilm(movieDetailsForGroup[k])],
                                 connection |-> aiGroup.connection,
                                 connectionType |-> inferConnectionType(aiGroup.connection),
                                 difficultyScore |-> DIFFICULTY_TO_SCORE[aiGroup.difficulty],
                                 difficulty |-> aiGroup.difficulty,
                                 color |-> DIFFICULTY_TO_COLOR[aiGroup.difficulty],
                                 verified |-> TRUE])
                         /\ provenance' = Append(provenance, aiGroup)
                         /\ UNCHANGED verificationRejected
    /\ cursor' = cursor + 1
    /\ UNCHANGED <<op, pc, ggVars, dedupVars, hybridVars, output, thrown, response,
                   aiGroups, movieDetails, hostBehindUTC, basicValid, basicFiltered,
                   verifiedGroups, verificationFiltered>>

\* line 261
ProcessReturn ==
    /\ op = "processAIResponse" /\ pc = "processing"
    /\ cursor = Len(aiGroups)
    /\ output' = Some([groups |-> validGroups,
                       verificationRejected |-> verificationRejected])
    /\ pc' = "done"
    /\ UNCHANGED <<op, ggVars, dedupVars, hybridVars, thrown, aiVars>>

-----------------------------------------------------------------------------
(* DeterministicDiscoverer *)

TITLE_PATTERNS ==
    << [type |-> "colors",
        words |-> <<"red", "blue", "black", "white", "green", "gold", "silver",
                    "yellow", "pink", "purple", "orange", "grey", "gray">>],
       [type |-> "numbers",
        words |-> <<"one", "two", "three", "four", "five", "six", "seven", "eight",
                    "nine", "ten", "eleven", "twelve", "thirteen", "hundred",
                    "thousand", "million", "1", "2", "3", "4", "5", "6", "7", "8",
                    "9", "0">>],
       [type |-> "animals",
        words |-> <<"dog", "cat", "bird", "wolf", "lion", "tiger", "bear", "snake",
                    "horse", "dragon", "shark", "fish", "crow", "swan", "eagle",
                    "hawk", "fox", "rabbit", "deer", "monkey", "ape", "spider",
                    "bat">>],
       [type |-> "bodyParts",
        words |-> <<"head", "hand", "heart", "eye", "eyes", "blood", "bone", "face",
                    "finger", "arm", "leg", "brain">>],
       [type |-> "timeWords",
        words |-> <<"night", "day", "midnight", "dawn", "dusk", "morning", "evening",
                    "yesterday", "tomorrow", "forever", "eternal">>],
       [type |-> "deathWords",
        words |-> <<"dead", "death", "die", "kill", "murder", "ghost", "zombie">>] >>

\* for (let i = 0; i + groupSize <= films.length; i += groupSize)
chunkIntoGroups(fs, groupSize) ==
    [k \in 1 .. (Len(fs) \div groupSize) |->
        SubSeq(fs, (k - 1) * groupSize + 1, k * groupSize)]

\* the keys of a Map in insertion order: each element of s where it first occurs
KeysInOrder(s) ==
    LET firsts == SelectSeq([k \in 1 .. Len(s) |-> k],
                            LAMBDA k : \A j \in 1 .. k - 1 : s[j] # s[k])
    IN [n \in 1 .. Len(firsts) |-> s[firsts[n]]]

\* a film once for each id: !existing.films.some((f) => f.id === film.id)
OncePerId(fs) ==
    SelectSeq([k \in 1 .. Len(fs) |-> [at |-> k, film |-> fs[k]]],
              LAMBDA e : \A j \in 1 .. e.at - 1 : fs[j].id # e.film.id)

DiscoveredGroup(fs, connectionType, connectionValue, category, vType, vParams) ==
    [films |-> fs, connectionType |-> connectionType,
     connectionValue |-> connectionValue, category |-> category,
     verificationType |-> vType, verificationParams |-> vParams]

\* film.credits?.crew?.find((c) => c.job === 'Director')
DirectorOf(film) ==
    LET directors == SelectSeq(film.crew, LAMBDA c : c.job = "Director")
    IN IF directors = <<>> THEN None ELSE Some(directors[1])

findDirectorGroups(fs) ==
    LET directed == SelectSeq(fs, LAMBDA f : DirectorOf(f) # None)
        ids == KeysInOrder([k \in 1 .. Len(directed) |-> DirectorOf(directed[k])[1].id])
        directorFilms(id) == SelectSeq(directed, LAMBDA f : DirectorOf(f)[1].id = id)
        name(id) == DirectorOf(directorFilms(id)[1])[1].name
        groupsFrom(id) ==
            LET chunks == chunkIntoGroups(directorFilms(id), GroupSize)
            IN [c \in 1 .. Len(chunks) |->
                   DiscoveredGroup(chunks[c], "director", name(id), "crew", "director",
                                   [NoParams EXCEPT !.personId = Some(id)])]
    IN Flat([n \in 1 .. Len(ids) |-> groupsFrom(ids[n])])

TOP_BILLING_THRESHOLD == 5

\* (mutant) every cast entry counts, whatever its billing order
TopActorsAnyBilling(film) == film.cast

\* film.credits?.cast?.filter((a) => a.order < TOP_BILLING_THRESHOLD)
TopActors(film) == SelectSeq(film.cast, LAMBDA a : a.order < TOP_BILLING_THRESHOLD)

findActorGroups(fs) ==
    LET billed == Flat([k \in 1 .. Len(fs) |->
                           [j \in 1 .. Len(TopActors(fs[k])) |->
                               [actor |-> TopActors(fs[k])[j], film |-> fs[k]]]])
        ids == KeysInOrder([k \in 1 .. Len(billed) |-> billed[k].actor.id])
        entries(id) == SelectSeq(billed, LAMBDA e : e.actor.id = id)
        actorFilms(id) ==
            LET once == OncePerId([k \in 1 .. Len(entries(id)) |-> entries(id)[k].film])
            IN [k \in 1 .. Len(once) |-> once[k].film]
        name(id) == entries(id)[1].actor.name
        groupsFrom(id) ==
            LET chunks == chunkIntoGroups(actorFilms(id), GroupSize)
            IN [c \in 1 .. Len(chunks) |->
                   DiscoveredGroup(chunks[c], "actor", name(id), "cast", "actor",
                                   [NoParams EXCEPT !.personId = Some(id)])]
    IN Flat([n \in 1 .. Len(ids) |-> groupsFrom(ids[n])])

typeLabels ==
    [colors |-> "Color", numbers |-> "Number", animals |-> "Animal",
     bodyParts |-> "Body part", timeWords |-> "Time word", deathWords |-> "Death word"]

formatPatternName(patternType, word) ==
    (IF patternType \in DOMAIN typeLabels THEN typeLabels[patternType] ELSE "Word")
        \o " \"" \o word \o "\" in title"

findTitlePatternGroups(fs) ==
    LET lowerTitle == [k \in 1 .. Len(fs) |-> toLowerCase(fs[k].title)]
        groupsFor(patternType, word) ==
            LET lowerWord == toLowerCase(word)
                matching ==
                    SelectSeq([k \in 1 .. Len(fs) |-> k],
                              LAMBDA k : includes(lowerTitle[k], lowerWord))
                matchingFilms == [n \in 1 .. Len(matching) |-> fs[matching[n]]]
                chunks == chunkIntoGroups(matchingFilms, GroupSize)
            IN IF Len(matchingFilms) >= GroupSize
               THEN [c \in 1 .. Len(chunks) |->
                        DiscoveredGroup(chunks[c], "title-" \o patternType,
                                        formatPatternName(patternType, word), "title",
                                        "title-contains",
                                        [NoParams EXCEPT !.substring = Some(word)])]
               ELSE <<>>
    IN Flat([p \in 1 .. Len(TITLE_PATTERNS) |->
                Flat([w \in 1 .. Len(TITLE_PATTERNS[p].words) |->
                         groupsFor(TITLE_PATTERNS[p].type, TITLE_PATTERNS[p].words[w])])])

findGenreGroups(fs) ==
    LET withGenre == SelectSeq(fs, LAMBDA f : Len(f.genres) > 0)
        ids == KeysInOrder([k \in 1 .. Len(withGenre) |-> withGenre[k].genres[1].id])
        genreFilms(id) == SelectSeq(withGenre, LAMBDA f : f.genres[1].id = id)
        groupsFrom(id) ==
            LET chunks == chunkIntoGroups(genreFilms(id), GroupSize)
            IN IF Len(genreFilms(id)) >= GroupSize
               THEN [c \in 1 .. Len(chunks) |->
                        DiscoveredGroup(chunks[c], "genre", genreFilms(id)[1].genres[1].name,
                                        "plot", "genre-includes",
                                        [NoParams EXCEPT !.genreId = Some(id)])]
               ELSE <<>>
    IN Flat([n \in 1 .. Len(ids) |-> groupsFrom(ids[n])])

\* priority[connectionType] || 10
Priority(connectionType) ==
    CASE connectionType = "director" -> 1
      [] connectionType = "actor" -> 2
      [] connectionType = "title-colors" -> 3
      [] connectionType = "title-animals" -> 4
      [] connectionType = "title-timeWords" -> 5
      [] connectionType = "title-deathWords" -> 6
      [] connectionType = "title-bodyParts" -> 7
      [] connectionType = "title-numbers" -> 8
      [] connectionType = "genre" -> 9
      [] OTHER -> 10

LowestPriority == 10
MinFilmsPerGroup == 4

\* validGroups.sort((a, b) => aPriority - bPriority): the sort is stable
SortByPriority(gs) ==
    Flat([p \in 1 .. LowestPriority |->
             SelectSeq(gs, LAMBDA g : Priority(g.connectionType) = p)])

\* (mutant) the cap is applied before the sort
discoverAllCapsFirst(fs, maxGroups) ==
    LET allGroups == findDirectorGroups(fs) \o findActorGroups(fs)
                        \o findTitlePatternGroups(fs) \o findGenreGroups(fs)
        validGroupsFound == SelectSeq(allGroups, LAMBDA g : Len(g.films) >= MinFilmsPerGroup)
    IN SortByPriority(Slice0(validGroupsFound, maxGroups))

\* lines 204-237: all four finders, the minimum size, the sort, the cap
discoverAll(fs, maxGroups) ==
    LET allGroups == findDirectorGroups(fs) \o findActorGroups(fs)
                        \o findTitlePatternGroups(fs) \o findGenreGroups(fs)
        validGroupsFound == SelectSeq(allGroups, LAMBDA g : Len(g.films) >= MinFilmsPerGroup)
    IN Slice0(SortByPriority(validGroupsFound), maxGroups)

-----------------------------------------------------------------------------
(* HybridGroupGenerator *)

\* largest pool given to generate
MaxFilms == 4
\* largest targetGroupCount
MaxTarget == 2

DefaultMaxDeterministicGroups == 15

\* connectionValue.match(/"([^"]+)"/): the text between the first pair of quotes
\* with something between them
extractWord(connectionValue) ==
    LET quote == "\""
        isMatch(i, j) ==
            /\ CharAt(connectionValue, i) = quote
            /\ CharAt(connectionValue, j) = quote
            /\ j > i + 1
            /\ \A k \in i + 1 .. j - 1 : CharAt(connectionValue, k) # quote
        starts == {i \in 1 .. Len(connectionValue) :
                      \E j \in i + 2 .. Len(connectionValue) : isMatch(i, j)}
    IN IF starts = {} THEN connectionValue
       ELSE LET i == CHOOSE a \in starts : \A b \in starts : a <= b
                j == CHOOSE b \in i + 2 .. Len(connectionValue) : isMatch(i, b)
            IN SubSeq(connectionValue, i + 1, j - 1)

IsTitleType(connectionType) ==
    connectionType \in {"title-colors", "title-numbers", "title-animals",
                        "title-bodyParts", "title-timeWords", "title-deathWords"}

generateConnectionText(d) ==
    IF d.connectionType = "director" THEN "Directed by " \o d.connectionValue
    ELSE IF d.connectionType = "actor" THEN "Starring " \o d.connectionValue
    ELSE IF IsTitleType(d.connectionType)
    THEN "Films with \"" \o extractWord(d.connectionValue) \o "\" in the title"
    ELSE IF d.connectionType = "genre" THEN d.connectionValue \o " films"
    ELSE d.connectionValue

determineDifficulty(d) ==
    IF d.connectionType \in {"director", "actor", "genre"} THEN "easy"
    ELSE IF d.connectionType = "title-deathWords" THEN "hard"
    ELSE "medium"

\* the explanation text is not modelled
formatDeterministicGroup(d) ==
    [connection |-> generateConnectionText(d),
     films |-> [k \in 1 .. Len(d.films) |-> ToFilm(d.films[k])],
     connectionType |-> d.connectionType,
     category |-> d.category,
     difficulty |-> determineDifficulty(d),
     difficultyScore |-> DIFFICULTY_TO_SCORE[determineDifficulty(d)],
     color |-> DIFFICULTY_TO_COLOR[determineDifficulty(d)],
     verified |-> TRUE,
     source |-> "deterministic"]

RECURSIVE SelectLoop(_, _, _, _)

\* (mutant) the splice leaves the list as it was
WithoutRemoving(s, k) == s

\* remaining.splice(k, 1)
Without(s, k) == SubSeq(s, 1, k - 1) \o SubSeq(s, k + 1, Len(s))

\* (mutant) findIndex looks for a category without asking whether it was used
UnusedCategoryIndexAnyCategory(remaining, usedCategories) ==
    LET hits == {k \in 1 .. Len(remaining) : remaining[k].category # ""}
    IN IF hits = {} THEN 0 ELSE CHOOSE k \in hits : \A h \in hits : k <= h

\* remaining.findIndex((g) => g.category && !usedCategories.has(g.category)),
\* counted from 1, and 0 when there is none
UnusedCategoryIndex(remaining, usedCategories) ==
    LET hits == {k \in 1 .. Len(remaining) :
                    remaining[k].category # "" /\ remaining[k].category \notin usedCategories}
    IN IF hits = {} THEN 0 ELSE CHOOSE k \in hits : \A h \in hits : k <= h

\* while (selected.length < maxCount && remaining.length > 0) { ... }
SelectLoop(selected, usedCategories, remaining, maxCount) ==
    IF ~(Len(selected) < maxCount /\ Len(remaining) > 0) THEN selected
    ELSE LET k == UnusedCategoryIndex(remaining, usedCategories)
         IN IF k # 0
            THEN SelectLoop(Append(selected, remaining[k]),
                            usedCategories \cup {remaining[k].category},
                            Without(remaining, k), maxCount)
            ELSE SelectLoop(Append(selected, Head(remaining)), usedCategories,
                            Tail(remaining), maxCount)

selectBestGroups(gs, maxCount, diversity) ==
    IF ~diversity THEN Slice0(gs, maxCount)
    ELSE SelectLoop(<<>>, {}, gs, maxCount)

\* the films of Catalogue at the places of S, in the order of the catalogue
PoolOf(S) ==
    LET places == SelectSeq([k \in 1 .. Len(Catalogue) |-> k], LAMBDA k : k \in S)
    IN [n \in 1 .. Len(places) |-> Catalogue[places[n]]]

\* pools of MaxFilms films or one fewer, with unique ids, in either order
Pools ==
    UNION {{PoolOf(S), Reverse(PoolOf(S))} :
              S \in {T \in SUBSET (1 .. Len(Catalogue)) :
                        Cardinality(T) \in {MaxFilms - 1, MaxFilms}}}

InitHybrid ==
    /\ op = "generate"
    /\ pc = "discovering"
    /\ films \in Pools
    /\ targetGroupCount \in 1 .. MaxTarget
    /\ preferDiversity \in BOOLEAN
    /\ maxDeterministicGroups \in {targetGroupCount, DefaultMaxDeterministicGroups}
    /\ hostBehindUTC \in BOOLEAN
    /\ discovered = <<>> /\ deterministicGroups = <<>>
    /\ response = "" /\ aiGroups = <<>> /\ movieDetails = <<>>
    /\ cursor = 0 /\ basicValid = <<>> /\ basicFiltered = 0
    /\ verifiedGroups = <<>> /\ verificationFiltered = 0
    /\ usedFilmIds = {} /\ validGroups = <<>> /\ verificationRejected = 0
    /\ verifyCalls = {} /\ provenance = <<>>
    /\ output = None /\ thrown = ""
    /\ ggIdle /\ dedupIdle

\* lines 629-631
HybridDiscover ==
    /\ op = "generate" /\ pc = "discovering"
    /\ discovered' = discoverAll(films, maxDeterministicGroups)
    /\ pc' = "formatting"
    /\ UNCHANGED <<op, ggVars, dedupVars, aiVars, output, thrown, films,
                   targetGroupCount, preferDiversity, maxDeterministicGroups,
                   deterministicGroups>>

\* line 634
HybridFormat ==
    /\ op = "generate" /\ pc = "formatting"
    /\ deterministicGroups' =
          [k \in 1 .. Len(discovered) |-> formatDeterministicGroup(discovered[k])]
    /\ pc' = "selecting"
    /\ UNCHANGED <<op, ggVars, dedupVars, aiVars, output, thrown, films,
                   targetGroupCount, preferDiversity, maxDeterministicGroups,
                   discovered>>

\* lines 637-643
HybridSelect ==
    /\ op = "generate" /\ pc = "selecting"
    /\ \E selected \in {selectBestGroups(deterministicGroups, targetGroupCount,
                                         preferDiversity)} :
          output' = Some([groups |-> selected,
                          deterministicCount |-> Len(selected),
                          aiCount |-> 0])
    /\ pc' = "done"
    /\ UNCHANGED <<op, ggVars, dedupVars, aiVars, hybridVars, thrown>>

-----------------------------------------------------------------------------
(* SpecSelect: selectBestGroups over lists of formatted groups *)

\* longest list given to selectBestGroups
MaxInput == 3
\* largest maxCount
MaxCount == 3

\* the groups discoverAll finds in the first four films of the catalogue: a
\* director, an actor, two title and a genre group
Discoverable == discoverAll(PoolOf(1 .. 4), DefaultMaxDeterministicGroups)

\* the lists of up to MaxInput different places of a list, in every order
Arrangements(n) ==
    UNION {{s \in [1 .. l -> 1 .. n] : \A i, j \in 1 .. l : s[i] = s[j] => i = j} :
              l \in 0 .. MaxInput}

InitSelect ==
    \E found \in {Discoverable} :
    /\ op = "generate"
    /\ pc = "selecting"
    /\ films = PoolOf(1 .. 4)
    /\ targetGroupCount \in 0 .. MaxCount
    /\ preferDiversity \in BOOLEAN
    /\ maxDeterministicGroups = DefaultMaxDeterministicGroups
    /\ hostBehindUTC \in BOOLEAN
    /\ \E s \in Arrangements(Len(found)) :
          discovered = [k \in 1 .. Len(s) |-> found[s[k]]]
    /\ deterministicGroups =
          [k \in 1 .. Len(discovered) |-> formatDeterministicGroup(discovered[k])]
    /\ response = "" /\ aiGroups = <<>> /\ movieDetails = <<>>
    /\ cursor = 0 /\ basicValid = <<>> /\ basicFiltered = 0
    /\ verifiedGroups = <<>> /\ verificationFiltered = 0
    /\ usedFilmIds = {} /\ validGroups = <<>> /\ verificationRejected = 0
    /\ verifyCalls = {} /\ provenance = <<>>
    /\ output = None /\ thrown = ""
    /\ ggIdle /\ dedupIdle

NextSelect == HybridSelect

SpecSelect == InitSelect /\ [][NextSelect]_vars

-----------------------------------------------------------------------------
(* SpecVerify: VerificationEngine.verify called with every descriptor *)

\* longest film list given to verify in SpecVerify
MaxChecked == 2

Keywords(keywords, requireAll) ==
    [type |-> "overview-keywords",
     params |-> [NoParams EXCEPT !.keywords = keywords, !.requireAll = requireAll]]

Descriptor(type, params) == [type |-> type, params |-> params]

\* the keyword lists of the descriptors, None for an absent list
KeywordLists ==
    {None, Some(<<>>), Some(<<"murder">>), Some(<<"MURDER", "boxing">>),
     Some(<<"heist", "murder">>), Some(<<"boxer", "title">>), Some(<<"submarine">>),
     Some(<<"">>), Some(<<"", "murder">>), Some(<<"murder", "">>)}

\* descriptors with every part present and usable
UsableDescriptors ==
    {Keywords(kws, requireAll) :
        kws \in KeywordLists \ {None, Some(<<>>)}, requireAll \in {None, Some(FALSE), Some(TRUE)}}
    \cup {Descriptor("title-contains", [NoParams EXCEPT !.substring = Some("EYES")]),
          Descriptor("title-pattern", [NoParams EXCEPT !.pattern = Some("^rocky")]),
          Descriptor("genre-includes", [NoParams EXCEPT !.genreId = Some(Drama.id)]),
          Descriptor("director", [NoParams EXCEPT !.personId = Some(DePalma.id)]),
          Descriptor("actor", [NoParams EXCEPT !.personId = Some(Cage.id)]),
          Descriptor("decade", [NoParams EXCEPT !.decade = Some(1990)]),
          Descriptor("year-range", [NoParams EXCEPT !.minYear = Some(1995)]),
          Descriptor("year-range", [NoParams EXCEPT !.maxYear = Some(1995)])}

\* descriptors with the part their type needs absent or unusable; the parts of
\* other types may be present
UnusableDescriptors ==
    {Keywords(kws, requireAll) :
        kws \in {None, Some(<<>>)}, requireAll \in {None, Some(FALSE), Some(TRUE)}}
    \cup {Descriptor(type, [NoParams EXCEPT !.keywords = Some(<<"murder">>)]) :
             type \in {"title-contains", "title-pattern", "genre-includes", "director",
                       "actor", "decade", "year-range"}}
    \cup {Descriptor("title-contains", [NoParams EXCEPT !.substring = Some("")]),
          Descriptor("title-pattern", [NoParams EXCEPT !.pattern = Some("")]),
          Descriptor("title-pattern", [NoParams EXCEPT !.pattern = Some("(eyes")]),
          Descriptor("title-pattern", [NoParams EXCEPT !.pattern = Some("eyes)")]),
          Descriptor("title-pattern", [NoParams EXCEPT !.substring = Some("eyes")]),
          Descriptor("director", [NoParams EXCEPT !.genreId = Some(DePalma.id)]),
          Descriptor("genre-includes", [NoParams EXCEPT !.personId = Some(Drama.id)]),
          Descriptor("decade", [NoParams EXCEPT !.minYear = Some(1990)]),
          Descriptor("year-range", [NoParams EXCEPT !.decade = Some(1990)])}
    \cup {Descriptor(type, params) :
             type \in {"mystery", "Director", ""},
             params \in {NoParams, [NoParams EXCEPT !.personId = Some(DePalma.id)],
                         [NoParams EXCEPT !.keywords = Some(<<"murder">>)]}}

\* the zero-based places of the films handed to verify
CheckedFilms ==
    {s \in UNION {[1 .. l -> 0 .. Len(Catalogue) - 1] : l \in 1 .. MaxChecked} :
        \A i, j \in 1 .. Len(s) : i < j => s[i] < s[j]}

InitVerify ==
    /\ op = "verify"
    /\ pc = "calling"
    /\ response = "ok"
    /\ \E d \in UsableDescriptors \cup UnusableDescriptors : \E s \in CheckedFilms :
          aiGroups = <<Suggestion("A connection", s, "easy", Some(d.type), Some(d.params))>>
    /\ movieDetails = Some(Catalogue)
    /\ hostBehindUTC \in BOOLEAN
    /\ cursor = 0 /\ basicValid = <<>> /\ basicFiltered = 0
    /\ verifiedGroups = <<>> /\ verificationFiltered = 0
    /\ usedFilmIds = {} /\ validGroups = <<>> /\ verificationRejected = 0
    /\ verifyCalls = {} /\ provenance = <<>>
    /\ output = None /\ thrown = ""
    /\ hybridIdle /\ ggIdle /\ dedupIdle

\* VerificationEngine.verify, lines 79-103: no statement of it or of what it
\* calls throws, the RegExp constructor's error is caught
VerifyDirect ==
    /\ op = "verify" /\ pc = "calling"
    /\ \E call \in {VerifyCall(aiGroups[1].connection, aiGroups[1].verificationType[1],
                               aiGroups[1].verificationParams[1],
                               FilmsOf(aiGroups[1].filmIndices, movieDetails[1]))} :
          /\ verifyCalls' = {call}
          /\ output' = Some([valid |-> call.valid, filmResults |-> call.filmResults,
                             issues |-> call.issues])
    /\ cursor' = 1
    /\ pc' = "done"
    /\ UNCHANGED <<op, ggVars, dedupVars, hybridVars, thrown, response, aiGroups,
                   movieDetails, hostBehindUTC, basicValid, basicFiltered, verifiedGroups,
                   verificationFiltered, usedFilmIds, validGroups, verificationRejected,
                   provenance>>

NextVerify == VerifyDirect

SpecVerify == InitVerify /\ [][NextVerify]_vars

-----------------------------------------------------------------------------

(* SpecDiscover: discoverAll over pools whose groups the sort has to move *)

\* largest explicit options.maxGroups
MaxCap == 3

\* const { maxGroups = 50, ... } = options
DefaultMaxGroups == 50

\* five films whose titles share a number word, a body-part word and a death
\* word, found in that order and ranked in the opposite one
TitledFilm(id, title, genres, director, billing) ==
    [id |-> id, title |-> title, release_date |-> Date(2001, 5, 5), overview |-> "",
     genres |-> genres, crew |-> <<Crew(director, "Director")>>,
     cast |-> <<Cast(Cage, billing)>>]

SortCatalogue ==
    << TitledFilm(201, "Dead Eyes One", <<Crime>>, DePalma, 0),
       TitledFilm(202, "One Dead Eyes", <<Crime>>, DePalma, 0),
       TitledFilm(203, "Eyes of the Dead One", <<Drama>>, DePalma, 0),
       TitledFilm(204, "Dead One's Eyes", <<Crime>>, DePalma, 6),
       TitledFilm(205, "One Red Dead", <<Crime>>, Coogler, 1) >>

\* the pools of four or five of these films, in every order
DiscoverPools ==
    {[k \in 1 .. Len(s) |-> SortCatalogue[s[k]]] :
        s \in {t \in UNION {[1 .. l -> 1 .. Len(SortCatalogue)] :
                               l \in GroupSize .. Len(SortCatalogue)} :
                  \A i, j \in 1 .. Len(t) : t[i] = t[j] => i = j}}

InitDiscover ==
    /\ op = "generate"
    /\ pc = "discovering"
    /\ films \in DiscoverPools
    /\ maxDeterministicGroups \in (0 .. MaxCap) \cup {DefaultMaxGroups}
    /\ targetGroupCount = 0
    /\ preferDiversity = TRUE
    /\ discovered = <<>> /\ deterministicGroups = <<>>
    /\ output = None /\ thrown = ""
    /\ aiIdle /\ ggIdle /\ dedupIdle

NextDiscover == HybridDiscover

SpecDiscover == InitDiscover /\ [][NextDiscover]_vars

-----------------------------------------------------------------------------

(* SpecProcess: processAIResponse over a pool that has room for two groups *)

\* longest list of suggestions given to processAIResponse
MaxProcessed == 3

\* the catalogue and an eighth film, so that two groups can be film-disjoint
LongCatalogue ==
    Catalogue \o
    << [id |-> 108, title |-> "Creed II", release_date |-> Date(2018, 11, 21),
        overview |-> "A boxer faces the son of an old rival.",
        genres |-> <<Drama>>,
        crew |-> <<Crew(Coogler, "Producer")>>,
        cast |-> <<Cast(Jordan, 0), Cast(Stallone, 1)>>] >>

WithStallone == Some([NoParams EXCEPT !.personId = Some(Stallone.id)])

\* suggestions that share films, are rejected for each of the three reasons,
\* or carry more indices than four
OverlappingSuggestions ==
    { Suggestion("Directed by Brian De Palma", <<0, 1, 2, 3>>, "easy",
                 Some("director"), ByDePalma),
      Suggestion("Starring Sylvester Stallone", <<4, 5, 6, 7>>, "medium",
                 Some("actor"), WithStallone),
      Suggestion("Directed by Brian De Palma", <<0, 1, 2, 4>>, "easy",
                 Some("director"), ByDePalma),
      Suggestion("Somebody gets hurt", <<4, 5, 6, 7>>, "hardest", None, None),
      Suggestion("Starring Sylvester Stallone", <<8, 5, 6, 7>>, "medium",
                 Some("actor"), WithStallone),
      Suggestion("Films from the 1990s", <<3, 2, 1, 0>>, "easy",
                 Some("decade"), Some([NoParams EXCEPT !.decade = Some(1990)])),
      Suggestion("Starring Sylvester Stallone", <<3, 4, 5, 6, 7>>, "medium",
                 Some("actor"), WithStallone) }

InitLongProcess ==
    /\ op = "processAIResponse"
    /\ pc = "processing"
    /\ response = "ok"
    /\ aiGroups \in SeqsUpTo(OverlappingSuggestions, MaxProcessed)
    /\ movieDetails = Some(LongCatalogue)
    /\ hostBehindUTC \in BOOLEAN
    /\ cursor = 0 /\ basicValid = <<>> /\ basicFiltered = 0
    /\ verifiedGroups = <<>> /\ verificationFiltered = 0
    /\ usedFilmIds = {} /\ validGroups = <<>> /\ verificationRejected = 0
    /\ verifyCalls = {} /\ provenance = <<>>
    /\ output = None /\ thrown = ""
    /\ hybridIdle /\ ggIdle /\ dedupIdle

NextProcess == ProcessStep \/ ProcessReturn

SpecProcess == InitLongProcess /\ [][NextProcess]_vars

-----------------------------------------------------------------------------

(* puzzleGenerator.ts: generatePuzzle, colour-aware (lines 1-435) and plain (lines 437-797) *)

\* the two versions of generatePuzzle the file holds
ColourAware == "generatePuzzle (colour-aware)"
Plain == "generatePuzzle"
PuzzleOps == {ColourAware, Plain}

Company(id, name) == [id |-> id, name |-> name]

\* TMDBMovieDetails with the fields the puzzle analyzers read
PuzzleMovie(id, title, year, overview, genres, crew, cast, collection, companies, keywords) ==
    [id |-> id, title |-> title, release_date |-> Date(year, 6, 15),
     overview |-> overview, genres |-> genres, crew |-> crew, cast |-> cast,
     belongs_to_collection |-> collection, production_companies |-> companies,
     keywords |-> keywords]

\* lines 14-21 and 450-457
tmdbMovieToFilm(movie) ==
    [id |-> movie.id, title |-> movie.title, year |-> getFullYear(movie.release_date)]

\* lines 24-35
SPECIFIC_THEMES ==
    << [keywords |-> <<"heist", "robbery", "steal">>, name |-> "Heist films"],
       [keywords |-> <<"time travel", "time machine">>, name |-> "Time travel films"],
       [keywords |-> <<"artificial intelligence", "robot", "ai">>, name |-> "AI/Robot films"],
       [keywords |-> <<"zombie", "undead">>, name |-> "Zombie films"],
       [keywords |-> <<"vampire">>, name |-> "Vampire films"],
       [keywords |-> <<"superhero", "marvel", "dc comics">>, name |-> "Superhero films"],
       [keywords |-> <<"space", "astronaut", "alien">>, name |-> "Space films"],
       [keywords |-> <<"world war", "vietnam war">>, name |-> "War films"],
       [keywords |-> <<"high school", "college">>, name |-> "School/College films"],
       [keywords |-> <<"hitman", "assassin">>, name |-> "Assassin films"] >>

\* lines 38-45
PRODUCTION_COMPANIES ==
    << [id |-> 3, name |-> "Pixar", label |-> "Pixar films"],
       [id |-> 2, name |-> "Walt Disney", label |-> "Disney films"],
       [id |-> 420, name |-> "Marvel", label |-> "Marvel films"],
       [id |-> 9993, name |-> "DC", label |-> "DC films"],
       [id |-> 33, name |-> "Universal", label |-> "Universal films"],
       [id |-> 1632, name |-> "Lionsgate", label |-> "Lionsgate films"] >>

\* lines 297-304 and 661-667
DIFFICULTY_COLORS(version) ==
    IF version = ColourAware
    THEN [director |-> [difficulty |-> "easy", color |-> "yellow"],
          actor |-> [difficulty |-> "easy", color |-> "yellow"],
          franchise |-> [difficulty |-> "medium", color |-> "green"],
          theme |-> [difficulty |-> "medium", color |-> "green"],
          production |-> [difficulty |-> "hard", color |-> "blue"],
          wordplay |-> [difficulty |-> "hardest", color |-> "purple"]]
    ELSE [director |-> [difficulty |-> "easy", color |-> "yellow"],
          actor |-> [difficulty |-> "easy", color |-> "yellow"],
          genre |-> [difficulty |-> "medium", color |-> "green"],
          decade |-> [difficulty |-> "hard", color |-> "blue"],
          wordplay |-> [difficulty |-> "hardest", color |-> "purple"]]

\* one push into a Map of movie lists: the key, the name kept at the first
\* push of the key, and the movie pushed
Entry(key, name, movie) == [key |-> key, name |-> name, movie |-> movie]

\* the lists of the Map after the pushes, in the insertion order of the keys
Buckets(entries) ==
    LET keys == KeysInOrder([k \in 1 .. Len(entries) |-> entries[k].key])
    IN [n \in 1 .. Len(keys) |->
           LET mine == SelectSeq(entries, LAMBDA e : e.key = keys[n])
           IN [key |-> keys[n], name |-> mine[1].name,
               movies |-> [k \in 1 .. Len(mine) |-> mine[k].movie]]]

\* the lists long enough to make a group, with the group's text and type
Eligible(buckets, type, prefix, suffix) ==
    LET long == SelectSeq(buckets, LAMBDA b : Len(b.movies) >= GroupSize)
    IN [n \in 1 .. Len(long) |->
           [movies |-> long[n].movies,
            connection |-> prefix \o long[n].name \o suffix,
            type |-> type]]

\* lines 50-59 and 462-471
DirectorEntries(movies) ==
    Flat([k \in 1 .. Len(movies) |->
             LET directors == SelectSeq(movies[k].crew, LAMBDA c : c.job = "Director")
             IN [j \in 1 .. Len(directors) |->
                    Entry(directors[j].id, directors[j].name, movies[k])]])

analyzeDirectors(movies) ==
    Eligible(Buckets(DirectorEntries(movies)),
             "director", "Directed by ", "")

\* movie.credits?.cast?.slice(0, 5) in the colour-aware version, slice(0, 10)
\* in the plain one
TopCast(version) == IF version = ColourAware THEN 5 ELSE 10

ActorEntries(movies, version) ==
    Flat([k \in 1 .. Len(movies) |->
             LET topActors == Slice0(movies[k].cast, TopCast(version))
             IN [j \in 1 .. Len(topActors) |->
                    Entry(topActors[j].id, topActors[j].name, movies[k])]])

analyzeActors(movies, version) ==
    Eligible(Buckets(ActorEntries(movies, version)),
             "actor", "Starring ", "")

\* lines 107-135
analyzeFranchises(movies) ==
    LET inCollection == SelectSeq(movies, LAMBDA m : m.belongs_to_collection # None)
        entries == [k \in 1 .. Len(inCollection) |->
                       Entry(inCollection[k].belongs_to_collection[1].id,
                             inCollection[k].belongs_to_collection[1].name,
                             inCollection[k])]
    IN Eligible(Buckets(entries), "franchise", "", "")

\* lines 146-150
hasTheme(movie, theme) ==
    \E n \in 1 .. Len(theme.keywords) :
       \/ includes(toLowerCase(movie.overview), theme.keywords[n])
       \/ includes(toLowerCase(movie.title), theme.keywords[n])
       \/ \E k \in 1 .. Len(movie.keywords) :
             includes(toLowerCase(movie.keywords[k]), theme.keywords[n])

\* lines 137-176: a movie goes to the first theme it has
analyzeThemes(movies) ==
    LET themesOf(m) == SelectSeq(SPECIFIC_THEMES, LAMBDA t : hasTheme(m, t))
        themed == SelectSeq(movies, LAMBDA m : themesOf(m) # <<>>)
        entries == [k \in 1 .. Len(themed) |->
                       Entry(themesOf(themed[k])[1].name, themesOf(themed[k])[1].name,
                             themed[k])]
    IN Eligible(Buckets(entries), "theme", "", "")

\* lines 178-210: a movie goes to the first known company it lists
analyzeProduction(movies) ==
    LET known(m) ==
            SelectSeq(m.production_companies,
                      LAMBDA c : \E n \in 1 .. Len(PRODUCTION_COMPANIES) :
                                    PRODUCTION_COMPANIES[n].id = c.id)
        labelOf(id) ==
            PRODUCTION_COMPANIES[CHOOSE n \in 1 .. Len(PRODUCTION_COMPANIES) :
                                    PRODUCTION_COMPANIES[n].id = id].label
        produced == SelectSeq(movies, LAMBDA m : known(m) # <<>>)
        entries == [k \in 1 .. Len(produced) |->
                       Entry(known(produced[k])[1].id, labelOf(known(produced[k])[1].id),
                             produced[k])]
    IN Eligible(Buckets(entries), "production", "", "")

\* lines 520-546
analyzeGenres(movies) ==
    LET entries == Flat([k \in 1 .. Len(movies) |->
                            [j \in 1 .. Len(movies[k].genres) |->
                                Entry(movies[k].genres[j].id, movies[k].genres[j].name,
                                      movies[k])]])
    IN Eligible(Buckets(entries), "genre", "", " films")

\* lines 548-575
analyzeDecades(movies) ==
    LET decade(m) == (getFullYear(m.release_date) \div 10) * 10
        entries == [k \in 1 .. Len(movies) |->
                       Entry(decade(movies[k]), ToString(decade(movies[k])), movies[k])]
    IN Eligible(Buckets(entries), "decade", "Films from the ", "s")

\* the upper-case letter of every lower-case letter
UpperOf ==
    [c \in {CharAt(LowerCaseLetters, k) : k \in 1 .. Len(LowerCaseLetters)} |->
        CharAt(UpperCaseLetters,
               CHOOSE k \in 1 .. Len(LowerCaseLetters) : CharAt(LowerCaseLetters, k) = c)]

\* word.charAt(0).toUpperCase() + word.slice(1)
Capitalized(word) ==
    IF Len(word) = 0 THEN ""
    ELSE (IF CharAt(word, 1) \in DOMAIN UpperOf THEN UpperOf[CharAt(word, 1)]
          ELSE CharAt(word, 1)) \o SubSeq(word, 2, Len(word))

\* String.prototype.replace(/[^a-z0-9\s]/g, '')
RECURSIVE KeepLettersDigitsBlanks(_)
KeepLettersDigitsBlanks(s) ==
    IF Len(s) = 0 THEN ""
    ELSE (IF IsOneOf(CharAt(s, 1), LowerCaseLetters) \/ IsOneOf(CharAt(s, 1), Digits)
             \/ CharAt(s, 1) = " "
          THEN CharAt(s, 1) ELSE "") \o KeepLettersDigitsBlanks(SubSeq(s, 2, Len(s)))

\* String.prototype.split(/\s+/) without the empty strings it leaves at the
\* ends, which the length filter drops
RECURSIVE SplitOnBlanks(_)
SplitOnBlanks(s) ==
    IF Len(s) = 0 THEN <<>>
    ELSE IF CharAt(s, 1) = " " THEN SplitOnBlanks(SubSeq(s, 2, Len(s)))
    ELSE LET blanks == {i \in 1 .. Len(s) : CharAt(s, i) = " "}
             end == IF blanks = {} THEN Len(s) + 1
                    ELSE CHOOSE i \in blanks : \A j \in blanks : i <= j
         IN <<SubSeq(s, 1, end - 1)>> \o SplitOnBlanks(SubSeq(s, end, Len(s)))

\* lines 215-218 and 581-603
stopWords(version) ==
    {"the", "a", "an", "and", "or", "but", "in", "on", "at", "to", "for", "of",
     "with", "by", "from", "as", "is", "was", "are", "been", "be"}
    \cup (IF version = ColourAware THEN {"part", "movie"} ELSE {})

\* word.length > 4 in the colour-aware version, word.length > 3 in the plain one
LongerThan(version) == IF version = ColourAware THEN 4 ELSE 3

\* wordMovies.length <= 8, colour-aware version only
MaxWordMovies == 8

\* lines 221-225 and 606-610
TitleWords(title, version) ==
    SelectSeq(SplitOnBlanks(KeepLettersDigitsBlanks(toLowerCase(title))),
              LAMBDA word : Len(word) > LongerThan(version)
                            /\ word \notin stopWords(version))

\* lines 212-248 and 577-634
analyzeWordplay(movies, version) ==
    LET entries == Flat([k \in 1 .. Len(movies) |->
                            LET words == TitleWords(movies[k].title, version)
                            IN [j \in 1 .. Len(words) |->
                                   Entry(words[j], Capitalized(words[j]), movies[k])]])
        notTooCommon == SelectSeq(Buckets(entries),
                                  LAMBDA b : version = ColourAware
                                             => Len(b.movies) <= MaxWordMovies)
    IN Eligible(notTooCommon, "wordplay", "\"", "\" in the title")

\* lines 378-394 and 741-755: the lists every analyzer would draw a group from
allPotentialBuckets(movies, version) ==
    IF version = ColourAware
    THEN analyzeDirectors(movies) \o analyzeActors(movies, version)
         \o analyzeFranchises(movies) \o analyzeThemes(movies)
         \o analyzeProduction(movies) \o analyzeWordplay(movies, version)
    ELSE analyzeDirectors(movies) \o analyzeActors(movies, version)
         \o analyzeGenres(movies) \o analyzeDecades(movies)
         \o analyzeWordplay(movies, version)

\* [...list].sort(() => Math.random() - 0.5): the orders the sort is taken to
\* leave of those a random comparator can give
SortKinds == {"kept", "reversed"}

RandomSort(s, kind) == IF kind = "kept" THEN s ELSE Reverse(s)

\* shuffled.slice(0, 4) of every list, each under the sort drawn for it
Drawn(buckets, kinds) ==
    [n \in 1 .. Len(buckets) |->
        [films |-> Slice0(RandomSort(buckets[n].movies, kinds[n]), GroupSize),
         connection |-> buckets[n].connection,
         type |-> buckets[n].type]]

\* group.films.some((film) => usedMovieIds.has(film.id))
hasOverlap(group, usedMovieIds) ==
    \E k \in 1 .. Len(group.films) : group.films[k].id \in usedMovieIds

MovieIdsOf(group) == {group.films[k].id : k \in 1 .. Len(group.films)}

RECURSIVE TakeInOrder(_, _, _, _)
\* lines 646-656: the loop over the shuffled groups
TakeInOrder(shuffled, selected, usedMovieIds, count) ==
    IF shuffled = <<>> \/ Len(selected) >= count THEN selected
    ELSE IF hasOverlap(Head(shuffled), usedMovieIds)
    THEN TakeInOrder(Tail(shuffled), selected, usedMovieIds, count)
    ELSE TakeInOrder(Tail(shuffled), Append(selected, Head(shuffled)),
                     usedMovieIds \cup MovieIdsOf(Head(shuffled)), count)

\* line 275
requiredColors == <<"yellow", "green", "blue", "purple">>

RECURSIVE TakeByColor(_, _, _, _, _)
\* lines 279-293: the loop over the required colours
TakeByColor(colors, groupsByColor, selected, usedMovieIds, count) ==
    IF colors = <<>> \/ Len(selected) >= count THEN selected
    ELSE LET free == SelectSeq(groupsByColor[Head(colors)],
                               LAMBDA g : ~hasOverlap(g, usedMovieIds))
         IN IF free = <<>>
            THEN TakeByColor(Tail(colors), groupsByColor, selected, usedMovieIds, count)
            ELSE TakeByColor(Tail(colors), groupsByColor, Append(selected, free[1]),
                             usedMovieIds \cup MovieIdsOf(free[1]), count)

\* lines 251-295 and 636-659, under the sorts drawn: kinds[c] for the groups of
\* colour c in the colour-aware version, kinds.all for the whole list in the
\* plain one
selectNonOverlappingGroups(allGroups, count, version, kinds) ==
    IF version = ColourAware
    THEN LET colorOf(g) == DIFFICULTY_COLORS(version)[g.type].color
             groupsByColor ==
                 [c \in Range(requiredColors) |->
                     RandomSort(SelectSeq(allGroups, LAMBDA g : colorOf(g) = c), kinds[c])]
         IN TakeByColor(requiredColors, groupsByColor, <<>>, {}, count)
    ELSE TakeInOrder(RandomSort(allGroups, kinds.all), <<>>, {}, count)

\* selectNonOverlappingGroups(allPotentialGroups, 4)
PuzzleGroupCount == 4

\* the draws of sorts one selection takes
GroupSortDraws(version) ==
    IF version = ColourAware THEN [Range(requiredColors) -> SortKinds]
    ELSE [{"all"} -> SortKinds]

\* Math.floor(Math.random() * (i + 1)) of shuffleArray, as drawn at every step:
\* the first place every time, or the place i itself every time
ShuffleDraws == {"first", "self"}

RECURSIVE ShuffleFrom(_, _, _)
\* lines 428-431 and 789-792, from place i (counted from 0) downwards
ShuffleFrom(shuffled, i, draw) ==
    IF i <= 0 THEN shuffled
    ELSE LET j == IF draw = "first" THEN 0 ELSE i
         IN ShuffleFrom([shuffled EXCEPT ![i + 1] = shuffled[j + 1],
                                         ![j + 1] = shuffled[i + 1]],
                        i - 1, draw)

\* lines 426-433 and 787-794
shuffleArray(array, draw) == ShuffleFrom(array, Len(array) - 1, draw)

\* lines 407-423 and 768-784
PuzzleOf(chosenGroups, version, draw) ==
    LET puzzleGroups ==
            [n \in 1 .. Len(chosenGroups) |->
                [id |-> chosenGroups[n].type \o "-" \o ToString(n - 1),
                 films |-> [k \in 1 .. Len(chosenGroups[n].films) |->
                               tmdbMovieToFilm(chosenGroups[n].films[k])],
                 connection |-> chosenGroups[n].connection,
                 difficulty |-> DIFFICULTY_COLORS(version)[chosenGroups[n].type].difficulty,
                 color |-> DIFFICULTY_COLORS(version)[chosenGroups[n].type].color]]
    IN [groups |-> puzzleGroups,
        films |-> shuffleArray(Flat([n \in 1 .. Len(puzzleGroups) |->
                                        puzzleGroups[n].films]), draw)]

-----------------------------------------------------------------------------
(* SpecPuzzle: generatePuzzle over pools drawn by the metadata source *)

Nolan == Person(10, "Christopher Nolan")
Hanks == Person(11, "Tom Hanks")
Pixar == Company(3, "Pixar")
RockyCollection == Some([id |-> 1575, name |-> "Rocky Collection"])

\* sixteen films with unique ids: four by one director, which also tell of a
\* heist; four of one collection; four of one company and one actor, of the
\* 1990s; four with "night" in the title, one of them twice
PuzzleCatalogue ==
    << PuzzleMovie(301, "Tenet", 1955, "A heist in reverse.", <<>>,
                   <<Crew(Nolan, "Director")>>, <<>>, None, <<>>, <<>>),
       PuzzleMovie(302, "Dunkirk", 1965, "", <<>>,
                   <<Crew(Nolan, "Director")>>, <<>>, None, <<>>, <<"Bank Robbery">>),
       PuzzleMovie(303, "Memento", 1975, "They steal his memory.", <<>>,
                   <<Crew(Nolan, "Director")>>, <<>>, None, <<>>, <<>>),
       PuzzleMovie(304, "Insomnia", 1985, "A HEIST gone wrong.", <<Drama>>,
                   <<Crew(Nolan, "Director")>>, <<>>, None, <<>>, <<>>),
       PuzzleMovie(305, "Rocky", 1956, "", <<Drama>>,
                   <<>>, <<>>, RockyCollection, <<>>, <<>>),
       PuzzleMovie(306, "Rocky II", 1966, "", <<Drama>>,
                   <<>>, <<>>, RockyCollection, <<>>, <<>>),
       PuzzleMovie(307, "Rocky III", 1976, "", <<Drama>>,
                   <<>>, <<>>, RockyCollection, <<>>, <<>>),
       PuzzleMovie(308, "Rocky IV", 1986, "", <<Drama>>,
                   <<>>, <<>>, RockyCollection, <<>>, <<>>),
       PuzzleMovie(309, "Up", 1995, "", <<>>,
                   <<>>, <<Cast(Hanks, 0)>>, None, <<Pixar>>, <<>>),
       PuzzleMovie(310, "Cars", 1996, "", <<>>,
                   <<>>, <<Cast(Hanks, 0)>>, None, <<Pixar>>, <<>>),
       PuzzleMovie(311, "Coco", 1997, "", <<>>,
                   <<>>, <<Cast(Hanks, 0)>>, None, <<Pixar>>, <<>>),
       PuzzleMovie(312, "Soul", 1998, "", <<>>,
                   <<>>, <<Cast(Hanks, 0)>>, None, <<Pixar>>, <<>>),
       PuzzleMovie(313, "Night after Night", 1932, "", <<>>,
                   <<>>, <<>>, None, <<>>, <<>>),
       PuzzleMovie(314, "Night Shift", 2002, "", <<>>,
                   <<>>, <<>>, None, <<>>, <<>>),
       PuzzleMovie(315, "Fright Night", 2011, "", <<>>,
                   <<>>, <<>>, None, <<>>, <<>>),
       PuzzleMovie(316, "Night Moves", 2023, "", <<>>,
                   <<>>, <<>>, None, <<>>, <<>>) >>

\* the pools getRandomMoviePool resolves with: none of the films, all of them,
\* or all but one
PuzzlePools ==
    {<<>>, PuzzleCatalogue}
    \cup {SelectSeq(PuzzleCatalogue, LAMBDA m : m.id # PuzzleCatalogue[k].id) :
             k \in 1 .. Len(PuzzleCatalogue)}

InitPuzzle ==
    /\ op \in PuzzleOps
    /\ pc = "fetching"
    /\ ggIdle /\ dedupIdle /\ genIdle

\* await tmdbService.getRandomMoviePool(200) resolves
PuzzleFetch ==
    /\ op \in PuzzleOps /\ pc = "fetching"
    /\ moviePool' \in PuzzlePools
    /\ pc' = "analyzing"
    /\ UNCHANGED <<op, poolFilters, maxGroupsPerBatch, registry, enabledAnalyzers,
                   earlier, completed, recentConnections, filteredPool, invoked,
                   allResults, potentialGroups, totalFound, phases, result, error,
                   dedupVars, genVars>>

\* lines 378-423 and 741-784, the run after the await: the analyzers and the
\* selection under the sorts drawn, then either the call of generatePuzzle
\* itself (lines 399-405 and 760-766), the frame that waits for the inner call
\* keeping its pool, or the return of the puzzle
PuzzleContinue ==
    /\ op \in PuzzleOps /\ pc = "analyzing"
    /\ \E buckets \in {allPotentialBuckets(moviePool, op)} :
       \E kinds \in [1 .. Len(buckets) -> SortKinds], draws \in GroupSortDraws(op) :
       \E chosenGroups \in {selectNonOverlappingGroups(Drawn(buckets, kinds),
                                                      PuzzleGroupCount, op, draws)} :
          IF Len(chosenGroups) < PuzzleGroupCount
          THEN /\ pc' = "fetching"
               /\ UNCHANGED output
          ELSE /\ \E draw \in ShuffleDraws :
                     output' = Some(PuzzleOf(chosenGroups, op, draw))
               /\ pc' = "done"
    /\ UNCHANGED <<op, ggVars, dedupVars, aiVars, hybridVars, thrown>>

NextPuzzle == PuzzleFetch \/ PuzzleContinue

SpecPuzzle == InitPuzzle /\ [][NextPuzzle]_vars

\* the metadata source answers, and the event loop runs the continuation: weak
\* fairness of PuzzleFetch and of PuzzleContinue, the latter with its enabling
\* condition written out (some selection exists for every pool, so the
\* continuation is enabled exactly while the call is at "analyzing")
SpecPuzzleFair ==
    /\ SpecPuzzle
    /\ WF_vars(PuzzleFetch)
    /\ (<>[](op \in PuzzleOps /\ pc = "analyzing") => []<><<PuzzleContinue>>_vars)

-----------------------------------------------------------------------------

(* SpecGen: the generation paths that take suggestions or discover groups *)

InitGen == InitClaude \/ InitProcess \/ InitHybrid

NextGen ==
    \/ ClaudeParse
    \/ ValidateStep
    \/ ClaudeReturnUnverified
    \/ ClaudeStartVerify
    \/ VerifyAIStep
    \/ ClaudeReturn
    \/ ProcessStep
    \/ ProcessReturn
    \/ HybridDiscover
    \/ HybridFormat
    \/ HybridSelect

SpecGen == InitGen /\ [][NextGen]_vars

-----------------------------------------------------------------------------
(* Claims *)

IdSet(g) == Range(g.films)

Shared(g, h) == Cardinality(IdSet(g) \cap IdSet(h))

\* two groups conflict: the same film-id set, or three or more ids in common
Conflict(g, h) == IdSet(g) = IdSet(h) \/ Shared(g, h) >= 3

\* C2: the batch returned by generateGroups holds no two groups with the same
\* film-id set (whatever the order of the films) and no two groups sharing three
\* or more film ids.
C2_BatchFreeOfDuplicatesAndOverlap ==
    result # None =>
        \A i, j \in 1 .. Len(result[1].groups) :
            i < j => ~Conflict(result[1].groups[i], result[1].groups[j])

\* C2 witness: a returned batch of two groups out of candidates among which one
\* repeated a film set in another order and one shared three films with another.
C2_Witness ==
    /\ result # None
    /\ Len(result[1].groups) = 2
    /\ \E i, j \in 1 .. Len(potentialGroups) :
         /\ i < j
         /\ IdSet(potentialGroups[i]) = IdSet(potentialGroups[j])
         /\ potentialGroups[i].films # potentialGroups[j].films
    /\ \E i, j \in 1 .. Len(potentialGroups) :
         Shared(potentialGroups[i], potentialGroups[j]) = 3

GroupA == Candidate(<<1, 2, 3, 4>>, "c", 5000)
GroupB == Candidate(<<1, 2, 3, 5>>, "c", 5000)
GroupC == Candidate(<<1, 2, 5, 6>>, "c", 5000)

\* the candidates already processed that were accepted, in input order
AcceptedSoFar == SelectSeq([i \in 1 .. idx |-> <<i, groups[i]>>],
                           LAMBDA p : verdict[p[1]])

\* C7: in the dedup pass a candidate is accepted if and only if no previously
\* accepted group has its film-id set or shares three or more ids with it; the
\* accepted list is exactly the accepted candidates in input order; and for
\* A=[1,2,3,4], B=[1,2,3,5], C=[1,2,5,6] in that order, A and C are accepted and B
\* is rejected.
C7_AcceptedIffNoConflictWithEarlierAccepted ==
    op = "deduplicateByFilms" =>
        /\ Len(verdict) = idx
        /\ \A i \in 1 .. idx :
             verdict[i] <=>
                 \A j \in 1 .. i - 1 : verdict[j] => ~Conflict(groups[j], groups[i])
        /\ accepted = [k \in 1 .. Len(AcceptedSoFar) |-> AcceptedSoFar[k][2]]
        /\ (pc = "done" /\ groups = <<GroupA, GroupB, GroupC>>) =>
               accepted = <<GroupA, GroupC>>

\* C7 witness: the pass has run over A, B, C and kept A and C.
C7_Witness ==
    /\ op = "deduplicateByFilms" /\ pc = "done"
    /\ groups = <<GroupA, GroupB, GroupC>>
    /\ verdict = <<TRUE, FALSE, TRUE>>

\* C8: generateGroups throws 'Filtered movie pool too small' when the filtered
\* pool has fewer than 20 films, also when no analyzer is enabled, and throws 'No
\* analyzers are registered or enabled' when the pool is large enough and no
\* analyzer is enabled; in both cases no analyzer was invoked and nothing is
\* returned.
C8_FatalConditionsThrow ==
    (op = "generateGroups" /\ pc # "filtering") =>
        /\ Len(filteredPool) < MinPoolSize =>
              /\ pc = "failed" /\ error = ErrPoolTooSmall
              /\ invoked = {} /\ result = None
        /\ (Len(filteredPool) >= MinPoolSize /\ Len(registry) = 0) =>
              /\ pc = "failed" /\ error = ErrNoAnalyzers
              /\ invoked = {} /\ result = None

\* C8 witness: both conditions hold (the filters cut a large enough pool below
\* the minimum, and no analyzer is enabled) and the pool-size error was thrown.
C8_Witness ==
    /\ pc = "failed" /\ error = ErrPoolTooSmall
    /\ Len(moviePool) >= MinPoolSize
    /\ Len(filteredPool) < MinPoolSize
    /\ Len(registry) = 0

\* the call can run: the filtered pool is large enough and an analyzer is enabled
Healthy ==
    /\ op = "generateGroups"
    /\ Len(applyPoolFilters(poolFilters, moviePool)) >= MinPoolSize
    /\ Len(registry) > 0

PhaseOrder ==
    {<<"filtering", "discovering">>, <<"discovering", "deduping">>,
     <<"deduping", "selecting">>, <<"selecting", "done">>,
     <<"filtering", "failed">>}

-----------------------------------------------------------------------------
(* Claims about the paths of SpecGen *)

\* the groups the call has returned, <<>> before it returns
OutputGroups == IF output = None THEN <<>> ELSE output[1].groups

FilmIdsAt(g) == [k \in 1 .. Len(g.films) |-> g.films[k].id]

\* verify has been run on these films with this descriptor and found them valid
PassedVerify(connection, filmIds, verificationType, verificationParams) ==
    \E c \in verifyCalls :
        /\ c.valid
        /\ c.connection = connection
        /\ c.films = filmIds
        /\ Some(c.verificationType) = verificationType
        /\ Some(c.params) = verificationParams

\* the ids of the films a suggestion of the Claude path points at
FilmIdsOfIndices(filmIndices) ==
    [k \in 1 .. Len(filmIndices) |->
        IF At(Catalogue, filmIndices[k]) = None THEN 0
        ELSE At(Catalogue, filmIndices[k])[1].id]

\* C1: every group returned by HybridGroupGenerator.generate, by
\* processAIResponse and by generateGroupsWithClaude has had
\* VerificationEngine.verify run on its four films with its own verification
\* descriptor, with the result valid, before it is output.
C1_EveryOutputGroupPassedVerify ==
    pc = "done" =>
        /\ op = "generateGroupsWithClaude" =>
              \A k \in 1 .. Len(OutputGroups) :
                  LET g == OutputGroups[k]
                  IN PassedVerify(g.connection, FilmIdsOfIndices(g.filmIndices),
                                  g.verificationType, g.verificationParams)
        /\ op = "processAIResponse" =>
              \A k \in 1 .. Len(OutputGroups) :
                  PassedVerify(OutputGroups[k].connection, FilmIdsAt(OutputGroups[k]),
                               provenance[k].verificationType,
                               provenance[k].verificationParams)
        /\ op = "generate" =>
              \A k \in 1 .. Len(OutputGroups) :
                  \E c \in verifyCalls :
                      c.valid /\ c.films = FilmIdsAt(OutputGroups[k])

\* two formatted groups conflict: the same film-id set, or three or more film
\* ids in common
ConflictOfFilms(g, h) ==
    LET a == Range(FilmIdsAt(g))
        b == Range(FilmIdsAt(h))
    IN a = b \/ Cardinality(a \cap b) >= OverlapLimit

\* C3: the batch returned by HybridGroupGenerator.generate holds no two groups
\* with the same film-id set and no two groups sharing three or more film ids.
C3_HybridBatchFreeOfDuplicatesAndOverlap ==
    (op = "generate" /\ pc = "done") =>
        \A i \in 1 .. Len(OutputGroups) : \A j \in 1 .. Len(OutputGroups) :
            i < j => ~ConflictOfFilms(OutputGroups[i], OutputGroups[j])

FourDistinctFilms(g) ==
    /\ Len(g.films) = GroupSize
    /\ Cardinality(Range(FilmIdsAt(g))) = GroupSize

\* C4: every group emitted by the discoverer (discoverAll, which holds the groups
\* of the four finders), by HybridGroupGenerator.generate and by processAIResponse
\* has exactly four films with pairwise distinct ids.
C4_EveryGroupHasFourDistinctFilms ==
    /\ op = "generate" =>
          /\ \A k \in 1 .. Len(discovered) : FourDistinctFilms(discovered[k])
          /\ \A k \in 1 .. Len(OutputGroups) : FourDistinctFilms(OutputGroups[k])
    /\ op = "processAIResponse" =>
          \A k \in 1 .. Len(validGroups) : FourDistinctFilms(validGroups[k])

\* filmIndices has length 4 and every index is inside the pool
WellFormedIndices(filmIndices) ==
    /\ Len(filmIndices) = GroupSize
    /\ \A k \in 1 .. Len(filmIndices) :
          filmIndices[k] >= 0 /\ filmIndices[k] < Len(Catalogue)

\* C5: a suggestion whose filmIndices has not exactly 4 entries, or has an index
\* outside the pool, is in the output neither of validateGroups nor of
\* processAIResponse.
C5_MalformedIndicesRejected ==
    /\ op = "generateGroupsWithClaude" =>
          \A k \in 1 .. Len(basicValid) : WellFormedIndices(basicValid[k].filmIndices)
    /\ op = "processAIResponse" =>
          \A k \in 1 .. Len(validGroups) : WellFormedIndices(provenance[k].filmIndices)

HasDescriptor(g) == g.verificationType # None /\ g.verificationParams # None

\* C6: a suggestion without verificationType or without verificationParams is in
\* the groups returned neither by verifyAIGroups / generateGroupsWithClaude nor
\* by processAIResponse.
C6_UnprovableSuggestionsRejected ==
    /\ op = "generateGroupsWithClaude" =>
          /\ \A k \in 1 .. Len(verifiedGroups) : HasDescriptor(verifiedGroups[k])
          /\ \A k \in 1 .. Len(OutputGroups) : HasDescriptor(OutputGroups[k])
    /\ op = "processAIResponse" =>
          \A k \in 1 .. Len(validGroups) : HasDescriptor(provenance[k])

\* C10: in each validation stage the groups output and the rejections counted
\* add up to the groups input: validateGroups and verifyAIGroups after every
\* iteration, processAIResponse after every iteration.
C10_OutputPlusRejectedIsInput ==
    /\ (op = "generateGroupsWithClaude" /\ pc = "validating") =>
          Len(basicValid) + basicFiltered = cursor
    /\ (op = "generateGroupsWithClaude" /\ pc = "verifying") =>
          /\ Len(basicValid) + basicFiltered = Len(aiGroups)
          /\ Len(verifiedGroups) + verificationFiltered = cursor
    /\ (op = "generateGroupsWithClaude" /\ pc = "done") =>
          /\ Len(basicValid) + basicFiltered = Len(aiGroups)
          /\ Len(OutputGroups) + output[1].filteredCount = Len(aiGroups)
    /\ (op = "processAIResponse" /\ pc = "processing") =>
          Len(validGroups) + verificationRejected = cursor
    /\ (op = "processAIResponse" /\ pc = "done") =>
          Len(OutputGroups) + output[1].verificationRejected = Len(aiGroups)

-----------------------------------------------------------------------------
(* Claims about the statistics and the inputs of generateGroups *)

\* the candidates every analyzer produced, in Promise.all order
Produced == Flat([i \in 1 .. Len(allResults) |-> allResults[i].value])

\* how many produced candidates carry a recently used connection
RecentlyUsedCount ==
    Cardinality({i \in 1 .. Len(Produced) : Produced[i].connection \in recentConnections})

\* how many candidates deduplicateByFilms did not accept
DedupRemovedCount == Cardinality({i \in 1 .. Len(verdict) : ~verdict[i]})

Min(a, b) == IF a < b THEN a ELSE b

\* C11: the statistics generateGroups returns are accurate: totalFound is the
\* number of candidates all analyzers produced, filteredCount is the number
\* removed by recent-connection exclusion plus the number removed by dedup, the
\* batch has min(maxGroupsPerBatch, totalFound - filteredCount) groups, and
\* every group of the batch is one of the produced candidates.
C11_StatisticsAreAccurate ==
    (op = "generateGroups" /\ pc = "done") =>
        LET r == result[1]
        IN /\ r.totalFound = Len(Produced)
           /\ r.filteredCount = RecentlyUsedCount + DedupRemovedCount
           /\ Len(r.groups) = Min(maxGroupsPerBatch, r.totalFound - r.filteredCount)
           /\ \A k \in 1 .. Len(r.groups) :
                 \E i \in 1 .. Len(Produced) :
                     /\ r.groups[k].films = Produced[i].films
                     /\ r.groups[k].connection = Produced[i].connection
                     /\ r.groups[k].difficultyScore = Produced[i].difficultyScore

\* C11 witness: a call returned after a recent-connection exclusion and a dedup
\* rejection, with the cap cutting the survivors.
C11_Witness ==
    /\ op = "generateGroups" /\ pc = "done"
    /\ RecentlyUsedCount > 0
    /\ DedupRemovedCount > 0
    /\ Len(result[1].groups) = maxGroupsPerBatch
    /\ maxGroupsPerBatch < result[1].totalFound - result[1].filteredCount

\* C12: no group generateGroups returns has a connection in recentConnections,
\* and the exclusion comes before dedup: whatever deduplicateByFilms rejects
\* conflicts with an earlier accepted candidate that is not recently used, so a
\* recently used candidate never causes a rejection.
C12_RecentExcludedBeforeDedup ==
    op = "generateGroups" =>
        /\ pc = "done" =>
              \A k \in 1 .. Len(result[1].groups) :
                  result[1].groups[k].connection \notin recentConnections
        /\ \A i \in 1 .. Len(verdict) :
              ~verdict[i] =>
                  \E j \in 1 .. i - 1 :
                      /\ verdict[j]
                      /\ Conflict(groups[j], groups[i])
                      /\ groups[j].connection \notin recentConnections

\* C12 witness: a recently used candidate was produced, and a later candidate
\* sharing three or more of its films is in the returned batch.
C12_Witness ==
    /\ op = "generateGroups" /\ pc = "done"
    /\ \E i \in 1 .. Len(Produced) : \E j \in 1 .. Len(Produced) :
          /\ i < j
          /\ Produced[i].connection \in recentConnections
          /\ Conflict(Produced[i], Produced[j])
          /\ \E k \in 1 .. Len(result[1].groups) :
                /\ result[1].groups[k].films = Produced[j].films
                /\ result[1].groups[k].connection = Produced[j].connection

\* the pool filters as the claim words them, for one film; a bound left out of
\* the configuration (0, or an empty list) constrains nothing
SatisfiesEveryFilter(f, m) ==
    /\ f.minYear # 0 => f.minYear <= m.release_year
    /\ f.maxYear # 0 => m.release_year <= f.maxYear
    /\ f.minVoteCount # 0 => f.minVoteCount <= m.vote_count
    /\ f.maxVoteCount # 0 => m.vote_count <= f.maxVoteCount
    /\ f.minPopularity # 0 => m.popularity >= f.minPopularity
    /\ f.allowedGenres # <<>> =>
          Range(m.genre_ids) \cap Range(f.allowedGenres) # {}
    /\ Range(m.genre_ids) \cap Range(f.excludedGenres) = {}

\* the positions of the pool whose film satisfies every filter
Kept == {i \in 1 .. Len(moviePool) :
            poolFilters = None \/ SatisfiesEveryFilter(poolFilters[1], Movie(moviePool[i]))}

\* C13: what generateGroups hands to the analyzers is exactly the films of the
\* pool that satisfy every configured pool filter, in their original relative
\* order, and the whole pool when no poolFilters are configured.
C13_AnalyzersReceiveTheFilteredPool ==
    (op = "generateGroups" /\ pc # "filtering") =>
        /\ Len(filteredPool) = Cardinality(Kept)
        /\ \A k \in 1 .. Len(filteredPool) :
              \E i \in Kept :
                  /\ filteredPool[k] = moviePool[i]
                  /\ Cardinality({j \in Kept : j < i}) = k - 1
        /\ poolFilters = None => filteredPool = moviePool

\* C13 witness: the analyzers were started on a pool from which a filter with an
\* upper bound removed a film.
C13_Witness ==
    /\ op = "generateGroups" /\ pc = "discovering" /\ invoked # {}
    /\ poolFilters # None
    /\ poolFilters[1].maxYear # 0 \/ poolFilters[1].maxVoteCount # 0
    /\ Len(filteredPool) < Len(moviePool)
    /\ Len(filteredPool) >= MinPoolSize

\* C14: the discoverers generateGroups runs are determined by the generator's
\* own configuration alone: a second call of the same generator with the same
\* pool and recentConnections runs the same discoverers and fails or succeeds as
\* the first did, whatever was registered in or cleared from the global analyzer
\* registry in between.
C14_SameConfigurationSameDiscoverers ==
    (op = "generateGroups" /\ earlier # None /\ pc # "filtering") =>
        /\ invoked = earlier[1].invoked
        /\ (pc = "failed") = (earlier[1].error # "")
        /\ pc = "failed" => error = earlier[1].error

\* the bands, lowest first
BandOf(difficulty) ==
    CASE difficulty = "easy" -> 1
      [] difficulty = "medium" -> 2
      [] difficulty = "hard" -> 3
      [] difficulty = "hardest" -> 4

\* the colour paired with each label
ColourOf(difficulty) ==
    CASE difficulty = "easy" -> "yellow"
      [] difficulty = "medium" -> "green"
      [] difficulty = "hard" -> "blue"
      [] difficulty = "hardest" -> "purple"

\* C15: the score-to-difficulty mapping is total and monotone with exhaustive,
\* non-overlapping bands: up to 3000 easy/yellow, 3001..6000 medium/green,
\* 6001..8000 hard/blue, above 8000 hardest/purple; scores outside the nominal
\* range fall in the lowest or the highest band, and the colour is the one
\* paired with the label.
C15_DifficultyBands ==
    (op = "generateGroups" /\ pc = "done" /\ result # None) =>
        LET out == result[1].groups
        IN /\ Len(out) = Len(accepted)
           /\ \A k \in 1 .. Len(out) :
                 LET s == accepted[k].difficultyScore
                     d == out[k].difficulty
                 IN /\ d \in {"easy", "medium", "hard", "hardest"}
                    /\ (d = "easy") = (s <= 3000)
                    /\ (d = "medium") = (3001 <= s /\ s <= 6000)
                    /\ (d = "hard") = (6001 <= s /\ s <= 8000)
                    /\ (d = "hardest") = (s > 8000)
                    /\ out[k].color = ColourOf(d)
           /\ \A j \in 1 .. Len(out) : \A k \in 1 .. Len(out) :
                 accepted[j].difficultyScore <= accepted[k].difficultyScore =>
                     BandOf(out[j].difficulty) <= BandOf(out[k].difficulty)

\* C15 witness: a batch with a score exactly on a band limit and one just above
\* it, and one with a score below the nominal range.
C15_Witness ==
    /\ op = "generateGroups" /\ pc = "done" /\ result # None
    /\ Len(result[1].groups) = 2
    /\ \/ /\ accepted[1].difficultyScore = 6000
          /\ accepted[2].difficultyScore = 6001
          /\ result[1].groups[1].difficulty = "medium"
          /\ result[1].groups[2].difficulty = "hard"
       \/ /\ accepted[1].difficultyScore < 0
          /\ accepted[2].difficultyScore > 10000
          /\ result[1].groups[1].color = "yellow"
          /\ result[1].groups[2].color = "purple"

-----------------------------------------------------------------------------
(* Claims about the DeterministicDiscoverer and the VerificationEngine *)

\* discoverAll returned every group the finders made: the cap cut nothing
NothingCut ==
    /\ op = "generate" /\ pc # "discovering"
    /\ Len(discovered) < maxDeterministicGroups

\* the groups of one connection type, in the order discoverAll returned them
DiscoveredOfType(connectionType) ==
    SelectSeq(discovered, LAMBDA g : g.connectionType = connectionType)

\* every person id with a crew entry of job "Director" in the pool
DirectorIds ==
    UNION {{films[k].crew[j].id : j \in {i \in 1 .. Len(films[k].crew) :
                                            films[k].crew[i].job = "Director"}} :
           k \in 1 .. Len(films)}

\* the films of the pool with a crew entry of job "Director" and this person id,
\* in pool order
FilmsDirectedBy(p) ==
    SelectSeq(films, LAMBDA f :
        \E j \in 1 .. Len(f.crew) : f.crew[j].job = "Director" /\ f.crew[j].id = p)

\* C16: findDirectorGroups yields, for a director with N films in the pool (every
\* film with a crew entry of job "Director" and that person id), floor(N/4)
\* groups when N >= 4 and none otherwise; each group has 4 films, the groups of
\* one director are the successive chunks of that director's films in encounter
\* order, and each carries verificationType director and the director's id.
C16_DirectorGroupsPerDirector ==
    NothingCut =>
        /\ \A p \in DirectorIds :
              LET mine == SelectSeq(DiscoveredOfType("director"),
                                    LAMBDA g : g.verificationParams.personId = Some(p))
                  N == Len(FilmsDirectedBy(p))
              IN /\ Len(mine) = (IF N >= GroupSize THEN N \div GroupSize ELSE 0)
                 /\ \A c \in 1 .. Len(mine) :
                       mine[c].films =
                           SubSeq(FilmsDirectedBy(p), (c - 1) * GroupSize + 1, c * GroupSize)
        /\ \A k \in 1 .. Len(DiscoveredOfType("director")) :
              LET g == DiscoveredOfType("director")[k]
              IN /\ Len(g.films) = GroupSize
                 /\ g.verificationType = "director"
                 /\ g.verificationParams.personId # None
                 /\ g.verificationParams.personId[1] \in DirectorIds

\* every person id with a cast entry in the pool
ActorIds ==
    UNION {{films[k].cast[j].id : j \in 1 .. Len(films[k].cast)} : k \in 1 .. Len(films)}

\* the film has a cast entry of this person with billing order below 5
TopBilledIn(p, f) ==
    \E j \in 1 .. Len(f.cast) : f.cast[j].id = p /\ f.cast[j].order < 5

\* M: the distinct films in which the person is top-billed
TopBilledFilmIds(p) ==
    {films[k].id : k \in {i \in 1 .. Len(films) : TopBilledIn(p, films[i])}}

\* C17: findActorGroups counts a film for an actor only through cast entries
\* with billing order below 5, and once however many such entries the film has:
\* an actor top-billed in M distinct films yields floor(M/4) groups of four
\* distinct films, each with the actor top-billed in every film.
C17_ActorGroupsCountTopBilledFilmsOnce ==
    NothingCut =>
        /\ \A p \in ActorIds :
              LET mine == SelectSeq(DiscoveredOfType("actor"),
                                    LAMBDA g : g.verificationParams.personId = Some(p))
              IN /\ Len(mine) = Cardinality(TopBilledFilmIds(p)) \div GroupSize
                 /\ \A c \in 1 .. Len(mine) :
                       /\ Len(mine[c].films) = GroupSize
                       /\ Cardinality({mine[c].films[i].id : i \in 1 .. GroupSize}) = GroupSize
                       /\ \A i \in 1 .. GroupSize : TopBilledIn(p, mine[c].films[i])
        /\ \A k \in 1 .. Len(DiscoveredOfType("actor")) :
              LET g == DiscoveredOfType("actor")[k]
              IN /\ g.verificationType = "actor"
                 /\ g.verificationParams.personId # None
                 /\ g.verificationParams.personId[1] \in ActorIds

\* C17 witness: discovery ran on a pool in which an actor has cast entries in
\* four films but is top-billed in fewer, and made no group for that actor, and
\* on a pool in which an actor has two top-billed entries in one film of a group.
C17_Witness ==
    /\ NothingCut
    /\ \/ \E p \in ActorIds :
             /\ Cardinality({k \in 1 .. Len(films) :
                               \E j \in 1 .. Len(films[k].cast) : films[k].cast[j].id = p})
                    >= GroupSize
             /\ Cardinality(TopBilledFilmIds(p)) < GroupSize
             /\ \A k \in 1 .. Len(discovered) :
                   discovered[k].verificationParams.personId # Some(p)
       \/ \E k \in 1 .. Len(discovered) :
             /\ discovered[k].connectionType = "actor"
             /\ \E i \in 1 .. GroupSize :
                   Cardinality({j \in 1 .. Len(discovered[k].films[i].cast) :
                       /\ Some(discovered[k].films[i].cast[j].id)
                              = discovered[k].verificationParams.personId
                       /\ discovered[k].films[i].cast[j].order < 5}) > 1


\* VerificationEngine.verify of a discovered group, with the group's own
\* verificationType and verificationParams, over the group's own films
VerifiedAsEmitted(g) ==
    verify(g.connectionValue, g.verificationType, g.verificationParams, g.films)

RoundTrips(gs) ==
    \A k \in 1 .. Len(gs) :
        /\ VerifiedAsEmitted(gs[k]).valid
        /\ VerifiedAsEmitted(gs[k]).issues = <<>>

\* C18: every group the DeterministicDiscoverer emits, from findDirectorGroups,
\* findActorGroups, findTitlePatternGroups, findGenreGroups or discoverAll,
\* passes VerificationEngine.verify with its own verificationType and
\* verificationParams over its own films: valid, and no issues.
C18_DiscoveredGroupsPassVerify ==
    op = "generate" =>
        /\ RoundTrips(discovered)
        /\ pc = "discovering" =>
              /\ RoundTrips(findDirectorGroups(films))
              /\ RoundTrips(findActorGroups(films))
              /\ RoundTrips(findTitlePatternGroups(films))
              /\ RoundTrips(findGenreGroups(films))

\* C18 witness: discoverAll returned a director group, an actor group, a
\* title-pattern group and a genre group from one pool, and a title of the
\* title-pattern group spells the word in another case than the pattern does.
C18_Witness ==
    /\ op = "generate" /\ pc # "discovering"
    /\ \A t \in {"director", "actor", "title-contains", "genre-includes"} :
          \E k \in 1 .. Len(discovered) : discovered[k].verificationType = t
    /\ \E k \in 1 .. Len(discovered) :
          /\ discovered[k].verificationType = "title-contains"
          /\ \E i \in 1 .. Len(discovered[k].films) :
                ~includes(discovered[k].films[i].title,
                          discovered[k].verificationParams.substring[1])


\* C19: selectBestGroups returns exactly min(maxCount, number of input groups)
\* groups, each of them one of the input groups and none of them twice, with or
\* without preferDiversity; the call returns for every input.
C19_SelectsMinOfCountAndInput ==
    op = "generate" =>
        /\ pc = "selecting" =>
              Len(selectBestGroups(deterministicGroups, targetGroupCount, preferDiversity))
                  = Min(targetGroupCount, Len(deterministicGroups))
        /\ pc = "done" =>
              LET selected == output[1].groups
              IN /\ Len(selected) = Min(targetGroupCount, Len(deterministicGroups))
                 /\ \A i \in 1 .. Len(selected) :
                       \E k \in 1 .. Len(deterministicGroups) :
                           selected[i] = deterministicGroups[k]
                 /\ \A i, j \in 1 .. Len(selected) : selected[i] = selected[j] => i = j

\* C19 witness: with preferDiversity, a call returned the whole input, shorter
\* than maxCount, and two of the groups it returned have the same category.
C19_Witness ==
    /\ op = "generate" /\ pc = "done" /\ preferDiversity
    /\ Len(deterministicGroups) < targetGroupCount
    /\ Len(output[1].groups) = Len(deterministicGroups)
    /\ \E i, j \in 1 .. Len(output[1].groups) :
          i # j /\ output[1].groups[i].category = output[1].groups[j].category


\* the film of the catalogue with this id
FilmOfId(id) == CHOOSE f \in {Catalogue[k] : k \in 1 .. Len(Catalogue)} : f.id = id

\* the message names the film: it holds the film's title between quotes
Names(issue, filmTitle) == includes(issue, "\"" \o filmTitle \o "\"")

\* C20: verify returns valid exactly when every film passes its check; its
\* filmResults has one entry per input film, in input order; its issues has one
\* message per failing film, naming that film's title, in input order, and no
\* message names a passing film.
C20_ValidIffEveryFilmPasses ==
    \A c \in verifyCalls :
        LET n == Len(c.films)
            film(k) == FilmOfId(c.films[k])
            passes(k) == verifyFilm(film(k), c.verificationType, c.params)
            failing == SelectSeq([k \in 1 .. n |-> k], LAMBDA k : ~passes(k))
        IN /\ c.valid <=> \A k \in 1 .. n : passes(k)
           /\ Len(c.filmResults) = n
           /\ \A k \in 1 .. n :
                 /\ c.filmResults[k].filmId = c.films[k]
                 /\ c.filmResults[k].filmTitle = film(k).title
                 /\ c.filmResults[k].passed = passes(k)
           /\ Len(c.issues) = Len(failing)
           /\ \A i \in 1 .. Len(failing) : Names(c.issues[i], film(failing[i]).title)
           /\ \A k \in 1 .. n :
                 passes(k) => \A i \in 1 .. Len(c.issues) : ~Names(c.issues[i], film(k).title)

\* C20 witness: verify was called on films of which some pass and some fail,
\* and was called on films that all pass.
C20_Witness ==
    /\ \E c \in verifyCalls :
          /\ ~c.valid
          /\ 0 < Len(c.issues) /\ Len(c.issues) < Len(c.films)
    /\ \E c \in verifyCalls : c.valid /\ Len(c.films) = GroupSize

-----------------------------------------------------------------------------
(* Claims about VerificationEngine.verify called directly *)

\* the film of a call of verify at place k of its film list
FilmAt(c, k) == FilmOfId(c.films[k])

\* the keyword is a substring of the film's overview, whatever the case
KeywordIn(kw, film) == includes(toLowerCase(film.overview), toLowerCase(kw))

\* C21: for overview-keywords with a non-empty keyword list, a film passes in
\* the default mode (requireAll absent or false) exactly when at least one
\* keyword is a case-insensitive substring of its overview, and with requireAll
\* exactly when every keyword is; so a film that passes with requireAll passes
\* in the default mode with the same keywords.
C21_KeywordsAnyOrAll ==
    \A c \in verifyCalls :
        (/\ c.verificationType = "overview-keywords"
         /\ c.params.keywords # None
         /\ Len(c.params.keywords[1]) > 0) =>
            LET kws == c.params.keywords[1]
            IN \A k \in 1 .. Len(c.films) :
                  /\ c.params.requireAll = Some(TRUE) =>
                        /\ c.filmResults[k].passed
                              <=> \A i \in 1 .. Len(kws) : KeywordIn(kws[i], FilmAt(c, k))
                        /\ c.filmResults[k].passed =>
                              verifyFilm(FilmAt(c, k), c.verificationType,
                                         [c.params EXCEPT !.requireAll = None])
                  /\ c.params.requireAll # Some(TRUE) =>
                        c.filmResults[k].passed
                            <=> \E i \in 1 .. Len(kws) : KeywordIn(kws[i], FilmAt(c, k))

\* the part of the descriptor that its verification type needs is missing or
\* cannot be used, or the type is none of the eight
Unusable(type, params) ==
    CASE type = "overview-keywords" ->
            params.keywords = None \/ params.keywords = Some(<<>>)
      [] type = "title-contains" -> params.substring = None
      [] type = "title-pattern" ->
            params.pattern = None \/ InvalidRegExp(params.pattern[1])
      [] type = "genre-includes" -> params.genreId = None
      [] type \in {"director", "actor"} -> params.personId = None
      [] type = "decade" -> params.decade = None
      [] type = "year-range" -> params.minYear = None /\ params.maxYear = None
      [] OTHER -> TRUE

\* C22: verify of a non-empty film list with a missing or unusable descriptor
\* (empty keyword list, missing substring or pattern, invalid regular
\* expression, missing genreId, personId or decade, neither minYear nor
\* maxYear, unknown verification type) returns, without throwing, valid = false
\* with every film failing.
C22_UnusableDescriptorFailsEveryFilm ==
    /\ op = "verify" => thrown = ""
    /\ op = "verify" /\ pc = "done" => output # None /\ verifyCalls # {}
    /\ \A c \in verifyCalls :
          (Len(c.films) > 0 /\ Unusable(c.verificationType, c.params)) =>
              /\ ~c.valid
              /\ Len(c.filmResults) = Len(c.films)
              /\ \A k \in 1 .. Len(c.films) : ~c.filmResults[k].passed
              /\ Len(c.issues) = Len(c.films)

\* C22 witness: verify has returned from a call with a pattern that is not a
\* regular expression, and the films of the call hold the pattern's text.
C22_Witness ==
    /\ op = "verify" /\ pc = "done" /\ thrown = ""
    /\ \E c \in verifyCalls :
          /\ c.verificationType = "title-pattern"
          /\ c.params.pattern # None
          /\ InvalidRegExp(c.params.pattern[1])
          /\ Len(c.films) = MaxChecked
          /\ \A k \in 1 .. Len(c.films) : includes(toLowerCase(FilmAt(c, k).title), "eyes")
          /\ ~c.valid

-----------------------------------------------------------------------------
(* Further claims about deduplicateByFilms and generateGroups *)

\* the elements of s at the places in S, in the order of s
Pick(s, S) ==
    LET places == SelectSeq([k \in 1 .. Len(s) |-> k], LAMBDA k : k \in S)
    IN [n \in 1 .. Len(places) |-> s[places[n]]]

IsSubsequence(a, s) == \E S \in SUBSET (1 .. Len(s)) : a = Pick(s, S)

\* C23: the dedup pass is greedy in input order and earlier groups win: the
\* accepted list is a subsequence of the input in the same relative order, the
\* first candidate is always accepted, and of two conflicting candidates (same
\* film set, or three or more shared films) the later one is never accepted when
\* the earlier one is accepted.
C23_GreedyInInputOrder ==
    op = "deduplicateByFilms" =>
        /\ IsSubsequence(accepted, SubSeq(groups, 1, idx))
        /\ idx >= 1 => verdict[1] /\ Len(accepted) >= 1 /\ accepted[1] = groups[1]
        /\ \A i, j \in 1 .. idx :
              (i < j /\ Conflict(groups[i], groups[j]) /\ verdict[i]) => ~verdict[j]
        /\ Len(accepted) = Cardinality({i \in 1 .. idx : verdict[i]})

\* C23 witness: the pass has returned two groups of three different candidates;
\* the second candidate conflicts with the first and lost to it, and the third
\* differs from the first and was accepted after it.
C23_Witness ==
    /\ op = "deduplicateByFilms" /\ pc = "done"
    /\ Len(groups) = 3 /\ Len(accepted) = 2
    /\ Conflict(groups[1], groups[2]) /\ ~verdict[2]
    /\ accepted = <<groups[1], groups[3]>>
    /\ groups[1] # groups[3]

\* the dedup survivors: the produced candidates without the recently used
\* connections, deduplicated in that order
Survivors ==
    deduplicateByFilms(SelectSeq(Produced, LAMBDA g : g.connection \notin recentConnections))

\* the returned group is this candidate, converted
IsCandidate(group, candidate) ==
    /\ group.films = candidate.films
    /\ group.connection = candidate.connection
    /\ group.difficultyScore = candidate.difficultyScore

\* C24: the batch cap of generateGroups is applied after recent-exclusion and
\* dedup: the returned groups are exactly the first min(maxGroupsPerBatch, s) of
\* the s dedup survivors, in survivor order, so the batch never has more than
\* maxGroupsPerBatch groups and a dropped candidate takes none of its places.
C24_CapAfterExclusionAndDedup ==
    (op = "generateGroups" /\ pc = "done") =>
        LET returned == result[1].groups
        IN /\ Len(returned) <= maxGroupsPerBatch
           /\ Len(returned) = Min(maxGroupsPerBatch, Len(Survivors))
           /\ \A k \in 1 .. Len(returned) : IsCandidate(returned[k], Survivors[k])
           /\ Survivors = accepted

\* C24 witness: a call returned a full batch, cut from more survivors than the
\* cap, and the first candidate produced was dropped by the exclusion, so the
\* groups returned all stand behind a dropped candidate; dedup dropped one too.
C24_Witness ==
    /\ op = "generateGroups" /\ pc = "done"
    /\ Len(result[1].groups) = maxGroupsPerBatch
    /\ Len(Survivors) > maxGroupsPerBatch
    /\ Produced[1].connection \in recentConnections
    /\ \E i \in 1 .. Len(verdict) : ~verdict[i]

\* what the analyzer at place i of getEnabled resolved to
ReturnedBy(i) ==
    (CHOOSE e \in Range(completed) : e.analyzer = i).value

\* the candidates of all analyzers, concatenated in discoverer order
InDiscovererOrder == Flat([i \in 1 .. Len(completed) |-> ReturnedBy(i)])

\* the candidates of all analyzers, concatenated in the order of completion
InCompletionOrder == Flat([k \in 1 .. Len(completed) |-> completed[k].value])

NotRecentlyUsed(gs) == SelectSeq(gs, LAMBDA g : g.connection \notin recentConnections)

\* the batch generateGroups makes of a candidate list
BatchOf(candidates) ==
    LET deduplicatedGroups == deduplicateByFilms(NotRecentlyUsed(candidates))
    IN [groups |-> selectedGroups(deduplicatedGroups, maxGroupsPerBatch),
        totalFound |-> Len(candidates),
        filteredCount |-> Len(candidates) - Len(deduplicatedGroups)]

\* C25: the result of generateGroups (groups, their order, totalFound and
\* filteredCount) does not depend on the order in which the analyzers' tasks
\* complete: the candidates are concatenated in discoverer order and only then
\* given to the sequential dedup pass, so the batch is the one made of the
\* analyzers' values in discoverer order, whatever the order of completion.
C25_ResultIndependentOfCompletionOrder ==
    (op = "generateGroups" /\ pc \in {"deduping", "selecting", "done"}) =>
        /\ Len(completed) = Len(allResults)
        /\ {completed[k].analyzer : k \in 1 .. Len(completed)} = 1 .. Len(allResults)
        /\ totalFound = Len(InDiscovererOrder)
        /\ potentialGroups = NotRecentlyUsed(InDiscovererOrder)
        /\ pc = "done" => result[1] = BatchOf(InDiscovererOrder)

\* C25 witness: a call returned after its second analyzer completed before its
\* first, and the candidates in completion order would have made another batch.
C25_Witness ==
    /\ op = "generateGroups" /\ pc = "done"
    /\ Len(completed) = 2
    /\ completed[1].analyzer = 2 /\ completed[2].analyzer = 1
    /\ BatchOf(InCompletionOrder).groups # result[1].groups
    /\ Len(result[1].groups) > 0

-----------------------------------------------------------------------------
(* Claims about discoverAll and selectBestGroups *)

\* what the four finders found, in discovery order
AllFound ==
    findDirectorGroups(films) \o findActorGroups(films)
        \o findTitlePatternGroups(films) \o findGenreGroups(films)

\* the place of a group in a list of different groups
PlaceIn(found, g) == CHOOSE k \in 1 .. Len(found) : found[k] = g

TitleTypes ==
    {"title-colors", "title-animals", "title-timeWords", "title-deathWords",
     "title-bodyParts", "title-numbers"}

\* C26: discoverAll returns at most maxGroups groups (50 when the option is
\* absent), ordered by connection-type priority: director, then actor, then the
\* title-pattern subtypes, then genre, groups of equal priority keeping their
\* discovery order; the cap comes after the sort, so no omitted group has a
\* strictly higher priority than a returned one.
C26_CappedAfterPrioritySort ==
    (op = "generate" /\ pc # "discovering") =>
        \A found \in {AllFound} :
            /\ Len(discovered) = Min(maxDeterministicGroups, Len(found))
            /\ Len(discovered) <= maxDeterministicGroups
            /\ \A k \in 1 .. Len(discovered) : discovered[k] \in Range(found)
            /\ \A i, j \in 1 .. Len(discovered) :
                  i < j =>
                     /\ Priority(discovered[i].connectionType)
                            <= Priority(discovered[j].connectionType)
                     /\ Priority(discovered[i].connectionType)
                            = Priority(discovered[j].connectionType)
                          => PlaceIn(found, discovered[i]) < PlaceIn(found, discovered[j])
            /\ \A k \in 1 .. Len(found) :
                  found[k] \notin Range(discovered) =>
                      \A i \in 1 .. Len(discovered) :
                          Priority(discovered[i].connectionType)
                              <= Priority(found[k].connectionType)
            /\ \A i, j \in 1 .. Len(discovered) :
                  LET a == discovered[i].connectionType
                      b == discovered[j].connectionType
                  IN /\ (a = "director" /\ b # "director") => i < j
                     /\ (a = "actor" /\ b \in TitleTypes \cup {"genre"}) => i < j
                     /\ (a \in TitleTypes /\ b = "genre") => i < j

\* C26 witness: discoverAll cut the groups it found, and a group it returned
\* was found after a group it omitted.
C26_Witness ==
    /\ op = "generate" /\ pc # "discovering"
    /\ Len(discovered) = maxDeterministicGroups
    /\ \E found \in {AllFound} :
          /\ Len(found) > maxDeterministicGroups
          /\ \E i \in 1 .. Len(discovered) :
                \E k \in 1 .. Len(found) :
                    /\ found[k] \notin Range(discovered)
                    /\ k < PlaceIn(found, discovered[i])


\* the categories of a list of groups
CategoriesOf(gs) == {gs[k].category : k \in 1 .. Len(gs)}

\* the places of the input not among the first n selected groups, the input
\* holding no group twice
RemainingAfter(input, selected, n) ==
    {k \in 1 .. Len(input) : \A m \in 1 .. n : selected[m] # input[k]}

\* the place the greedy rule names after the first n selections: the earliest
\* remaining group of a category not selected yet, and the earliest remaining
\* group when there is none
GreedyPlace(input, selected, n) ==
    LET rest == RemainingAfter(input, selected, n)
        fresh == {k \in rest :
                     input[k].category \notin CategoriesOf(SubSeq(selected, 1, n))}
        from == IF fresh # {} THEN fresh ELSE rest
    IN CHOOSE k \in from : \A h \in from : k <= h

\* C27: with preferDiversity set and every input group carrying a category,
\* each selected group is the earliest remaining group of a category not yet
\* selected, a category is repeated only when every remaining group's category
\* is already selected, and the output holds min(maxCount, number of distinct
\* categories of the input) distinct categories.
C27_GreedyByUnusedCategory ==
    (op = "generate" /\ pc = "done" /\ preferDiversity /\ output # None
       /\ \A k \in 1 .. Len(deterministicGroups) : deterministicGroups[k].category # "")
    => \E selected \in {output[1].groups} :
          /\ \A n \in 1 .. Len(selected) :
                selected[n] =
                   deterministicGroups[GreedyPlace(deterministicGroups, selected, n - 1)]
          /\ \A n \in 2 .. Len(selected) :
                selected[n].category \in CategoriesOf(SubSeq(selected, 1, n - 1))
                => \A k \in RemainingAfter(deterministicGroups, selected, n - 1) :
                      deterministicGroups[k].category
                         \in CategoriesOf(SubSeq(selected, 1, n - 1))
          /\ Cardinality(CategoriesOf(selected))
                = Min(targetGroupCount, Cardinality(CategoriesOf(deterministicGroups)))

\* a selection that passed over the second group of a category for a later
\* group of a new one, and one that came back to the group it passed over
C27_Witness ==
    /\ op = "generate" /\ pc = "done" /\ preferDiversity /\ output # None
    /\ Len(deterministicGroups) = 3
    /\ deterministicGroups[1].category = deterministicGroups[2].category
    /\ deterministicGroups[3].category # deterministicGroups[1].category
    /\ output[1].groups
          = <<deterministicGroups[1], deterministicGroups[3], deterministicGroups[2]>>


-----------------------------------------------------------------------------
(* Claims about the films of the groups of processAIResponse *)

\* the ids of the films of the k-th accepted group
AcceptedIds(k) == {validGroups[k].films[n].id : n \in 1 .. Len(validGroups[k].films)}

\* the ids of the films a suggestion names in the pool
NamedIds(aiGroup) ==
    {movieDetails[1][aiGroup.filmIndices[n] + 1].id :
        n \in {m \in 1 .. Len(aiGroup.filmIndices) :
                  aiGroup.filmIndices[m] >= 0
                  /\ aiGroup.filmIndices[m] < Len(movieDetails[1])}}

\* C28: the groups one call of processAIResponse accepts share no film and
\* stand in the order of their suggestions, a later suggestion never taking a
\* film from an earlier accepted one; the only films withheld from later
\* suggestions are those of accepted groups, so the films of a rejected
\* suggestion stay available.
C28_AcceptedGroupsShareNoFilm ==
    op = "processAIResponse"
    => /\ \A i, j \in 1 .. Len(validGroups) :
             i < j => AcceptedIds(i) \cap AcceptedIds(j) = {}
       /\ IsSubsequence(provenance, SubSeq(aiGroups, 1, cursor))
       /\ usedFilmIds = UNION {AcceptedIds(k) : k \in 1 .. Len(validGroups)}
       /\ (output # None => output[1].groups = validGroups)

\* a call that rejected and counted its first suggestion, accepted the second,
\* which names a film of the first, and accepted the third as well
C28_Witness ==
    /\ op = "processAIResponse" /\ pc = "done" /\ output # None
    /\ Len(aiGroups) = 3
    /\ Len(output[1].groups) = 2
    /\ provenance = SubSeq(aiGroups, 2, 3)
    /\ output[1].verificationRejected = 1
    /\ NamedIds(aiGroups[1]) \cap AcceptedIds(1) # {}


-----------------------------------------------------------------------------
(* Claims about generatePuzzle *)

\* the ids of the films of the n-th group of the returned puzzle
PuzzleIds(n) ==
    {output[1].groups[n].films[k].id : k \in 1 .. Len(output[1].groups[n].films)}

\* the returned puzzle has four groups of four films, no film in two groups
FourDisjointGroups ==
    /\ Len(output[1].groups) = PuzzleGroupCount
    /\ \A n \in 1 .. Len(output[1].groups) : Len(output[1].groups[n].films) = GroupSize
    /\ \A m, n \in 1 .. Len(output[1].groups) :
          m # n => PuzzleIds(m) \cap PuzzleIds(n) = {}

\* the colour-aware version returns one group of each colour
FourColours ==
    op = ColourAware
    => {output[1].groups[n].color : n \in 1 .. Len(output[1].groups)}
          = Range(requiredColors)

\* the sixteen films of the board have sixteen ids
SixteenDistinctIds ==
    /\ Len(output[1].films) = PuzzleGroupCount * GroupSize
    /\ Cardinality({output[1].films[k].id : k \in 1 .. Len(output[1].films)})
          = PuzzleGroupCount * GroupSize

\* C29: whenever generatePuzzle returns, the puzzle has exactly four groups of
\* four films, the groups share no film, the sixteen films of the board have
\* pairwise distinct ids, and in the colour-aware version the four groups have
\* the four colours yellow, green, blue and purple.
C29_PuzzleHasSixteenDistinctFilms ==
    (op \in PuzzleOps /\ pc = "done")
    => output # None /\ FourDisjointGroups /\ FourColours /\ SixteenDistinctIds

\* C30: every call of generatePuzzle eventually returns a puzzle.
C30_EveryCallReturns == op \in PuzzleOps => <>(pc = "done")

=============================================================================
